---- MODULE Spec2Model ----
(***************************************************************************)
(* Model of the raw-audio pipeline of the AI Photo Tour Guide:             *)
(*   src/utils/audio.ts    decodeBase64, decodeAudioData, writeString,     *)
(*                         createWavBlobFromBase64                         *)
(*   src/unnamed/part_000  base64toFile                                    *)
(* Strings are sequences of one-character strings, byte buffers are        *)
(* sequences of integers 0..255 (index i+1 holds offset i).                *)
(* And of the two App components that keep the history of analyses:        *)
(*   src/App.tsx                     state, effects and handlers           *)
(*   src/services/geminiService.ts   the App component of lines 132-468    *)
(* with the services of geminiService.ts:31-97 and src/unnamed/part_002    *)
(* as the answers they may give.                                           *)
(***************************************************************************)
EXTENDS Integers, Sequences, FiniteSets, TLC

\* base64:  the base64 string the call is made on
\* call:    the function called, "none" before the call
\* args:    the other arguments of the call
\* outcome: what the call returned or threw
VARIABLES base64, call, args, outcome

\* procs: the calls running side by side, each with its position and locals
\* heap:  the mutable buffers the running calls have allocated
VARIABLES procs, heap

audioVars == <<base64, call, args, outcome>>

callVars == <<procs, heap>>

\* variant:      which App component runs: "A" is src/App.tsx, "B" is the App
\*               component in src/services/geminiService.ts
\* mounted:      whether the component is mounted
\* appState:     the state / appState object of the component
\* history:      the history list of the component
\* localStorage: what window.localStorage holds under 'landmarkHistory'
\* effects:      the effects React has scheduled and not yet run, in order
\* tasks:        the async handlers that are awaiting a service
\* selectedVoice, isHistoryPanelOpen, isRegeneratingAudio: as in the source
VARIABLES variant, mounted, appState, history, localStorage, effects, tasks,
          selectedVoice, isHistoryPanelOpen, isRegeneratingAudio

appVars == <<variant, mounted, appState, history, localStorage, effects, tasks,
             selectedVoice, isHistoryPanelOpen, isRegeneratingAudio>>

\* isPlaying:       the isPlaying state of the App of geminiService.ts
\* audioContextRef: "none" while audioContextRef.current is null, else the
\*                  state of the AudioContext it holds
\* audioSourceRef:  0 while audioSourceRef.current is null, else the number
\*                  of the source node it holds
\* sources:         the source nodes started so far: "playing", "stopped"
\*                  (silenced, its ended event not yet delivered) or "ended"
\* plays:           the playNarration invocations at an await, each with the
\*                  audio of the render it was called in
VARIABLES isPlaying, audioContextRef, audioSourceRef, sources, plays

playVars == <<isPlaying, audioContextRef, audioSourceRef, sources, plays>>

\* cameras: the CameraCapture instances rendered so far, each with mounted,
\*          streamRef (0 for null), the getUserMedia request and error
\* streams: the MediaStreams the platform handed out: "live" or "stopped"
\* blobs:   the canvas.toBlob callbacks not yet delivered
VARIABLES cameras, streams, blobs

cameraVars == <<cameras, streams, blobs>>

\* videoArgs:        the arguments createVideoFromLandmark was called with
\* videoPc:          where createVideoFromLandmark stands
\* generatedImages:  what the two generateReferenceImage calls resolved to
\* referenceImages:  referenceImagesPayload
\* operation:        the operation object last observed
\* pollCount:        as in the source
\* progressMessage:  the message last handed to updateProgress
\* videoResult:      what createVideoFromLandmark returned or threw
VARIABLES videoArgs, videoPc, generatedImages, referenceImages, operation,
          pollCount, progressMessage, videoResult

videoVars == <<videoArgs, videoPc, generatedImages, referenceImages, operation,
               pollCount, progressMessage, videoResult>>

sideVars == <<playVars, cameraVars, videoVars>>

vars == <<base64, call, args, outcome, procs, heap,
          variant, mounted, appState, history, localStorage, effects, tasks,
          selectedVoice, isHistoryPanelOpen, isRegeneratingAudio,
          isPlaying, audioContextRef, audioSourceRef, sources, plays,
          cameras, streams, blobs,
          videoArgs, videoPc, generatedImages, referenceImages, operation,
          pollCount, progressMessage, videoResult>>

(***************************************************************************)
(* Bounds of the checked inputs.                                           *)
(***************************************************************************)
\* longest freely chosen part of a base64 input, in characters
MaxTail == 4

\* characters the freely chosen part of an input is built from: base64
\* digits of value 0, 32 and 63, the padding character, a character outside
\* the alphabet and an ASCII whitespace character
Chars == {"A", "g", "/", "=", "!", " "}

\* well-formed beginnings an input may have: nothing, one full group
\* (bytes FF 7F 00), or the base64 of the bytes 00 01 00 02
Prefixes ==
    { <<>>,
      <<"/", "3", "8", "A">>,
      <<"A", "A", "E", "A", "A", "g", "=", "=">> }

\* sample rates of the caller's AudioContext
SampleRates == {24000, 48000}

\* file names handed to base64toFile
Filenames == { <<"p", ".", "j", "p", "g">>, <<"A", " ", "b">> }

\* MIME types handed to base64toFile: lower case, mixed case, and one with a
\* character outside U+0020..U+007E
MimeTypes ==
    { <<"i", "m", "a", "g", "e", "/", "j", "p", "e", "g">>,
      <<"I", "m", "a", "g", "e", "/", "P", "N", "G">>,
      <<"a", "\n", "b">> }

\* number of calls running side by side
NumCalls == 2

\* async handlers that may be awaiting a service at the same time
MaxTasks == 1

\* landmark names the identification service may answer with
Names == {"Eiffel Tower", "Colosseum"}

\* the most CameraCapture instances one run renders
MaxCameras == 2

\* the most canvas.toBlob callbacks pending at once
MaxBlobs == 1

\* the most polls of the video operation one run makes: the service
\* answers done or fails at this poll at the latest
MaxPolls == 21

\* the most source nodes one run starts
MaxSources == 3

\* photographs the user may submit (a photograph and its base64 content)
Photos == {"photo1"}

\* voices the user may pick among AVAILABLE_VOICES
Voices == {"Kore", "Puck"}

\* payloads of the calls running side by side: four bytes, three bytes, and
\* a string that is not base64
CallPayloads ==
    { <<"A", "A", "E", "A", "A", "g", "=", "=">>,
      <<"/", "3", "8", "A">>,
      <<"A", "!">> }

RECURSIVE SeqsUpTo(_, _)
\* all sequences over S of length at most n
SeqsUpTo(S, n) ==
    IF n = 0 THEN { <<>> }
    ELSE LET shorter == SeqsUpTo(S, n - 1)
         IN  shorter \cup { Append(s, c) : s \in { t \in shorter : Len(t) = n - 1 }, c \in S }

Inputs == { p \o t : p \in Prefixes, t \in SeqsUpTo(Chars, MaxTail) }

(***************************************************************************)
(* Characters.                                                             *)
(***************************************************************************)
B64Alphabet ==
    << "A", "B", "C", "D", "E", "F", "G", "H", "I", "J", "K", "L", "M",
       "N", "O", "P", "Q", "R", "S", "T", "U", "V", "W", "X", "Y", "Z",
       "a", "b", "c", "d", "e", "f", "g", "h", "i", "j", "k", "l", "m",
       "n", "o", "p", "q", "r", "s", "t", "u", "v", "w", "x", "y", "z",
       "0", "1", "2", "3", "4", "5", "6", "7", "8", "9", "+", "/" >>

B64Chars == { B64Alphabet[i] : i \in 1..64 }

\* the 6-bit value of a base64 digit
B64Value(c) == (CHOOSE i \in 1..64 : B64Alphabet[i] = c) - 1

AsciiWhitespace == { " ", "\t", "\n", "\f", "\r" }

\* String.prototype.charCodeAt for one character
charCode(c) ==
    IF c \in B64Chars
    THEN LET v == B64Value(c)
         IN  IF v < 26 THEN 65 + v
             ELSE IF v < 52 THEN 97 + (v - 26)
             ELSE IF v < 62 THEN 48 + (v - 52)
             ELSE IF v = 62 THEN 43 ELSE 47
    ELSE CASE c = " "  -> 32
           [] c = "!"  -> 33
           [] c = "."  -> 46
           [] c = "="  -> 61
           [] c = "\t" -> 9
           [] c = "\n" -> 10
           [] c = "\f" -> 12
           [] c = "\r" -> 13

(***************************************************************************)
(* Outcomes of a call.                                                     *)
(***************************************************************************)
Return(v)  == [kind |-> "return", value |-> v]
Throw(e)   == [kind |-> "throw", error |-> e]

\* an async function: a returned value fulfils the promise, a thrown error
\* rejects it
AsyncOutcome(r) ==
    IF r.kind = "return"
    THEN [kind |-> "fulfilled", value |-> r.value]
    ELSE [kind |-> "rejected", error |-> r.error]

(***************************************************************************)
(* Platform primitives the code calls.                                     *)
(***************************************************************************)
NotWhitespace(c) == c \notin AsciiWhitespace

\* the trailing padding is removed only when the length is a multiple of 4
StripPadding(s) ==
    IF Len(s) > 0 /\ Len(s) % 4 = 0
    THEN IF s[Len(s)] = "=" /\ s[Len(s) - 1] = "="
         THEN SubSeq(s, 1, Len(s) - 2)
         ELSE IF s[Len(s)] = "=" THEN SubSeq(s, 1, Len(s) - 1) ELSE s
    ELSE s

RECURSIVE DecodeDigits(_)
\* the bytes of a padding-free digit string: 24 bits per full group, then
\* 12 bits (the last 4 dropped) or 18 bits (the last 2 dropped)
DecodeDigits(d) ==
    IF Len(d) >= 4
    THEN LET n == B64Value(d[1]) * 262144 + B64Value(d[2]) * 4096
                  + B64Value(d[3]) * 64 + B64Value(d[4])
         IN  << n \div 65536, (n \div 256) % 256, n % 256 >>
             \o DecodeDigits(SubSeq(d, 5, Len(d)))
    ELSE IF Len(d) = 3
    THEN LET n == (B64Value(d[1]) * 4096 + B64Value(d[2]) * 64 + B64Value(d[3])) \div 4
         IN  << n \div 256, n % 256 >>
    ELSE IF Len(d) = 2
    THEN << (B64Value(d[1]) * 64 + B64Value(d[2])) \div 16 >>
    ELSE << >>

\* window.atob: the forgiving-base64 decode; the value is the binary string
\* as its sequence of code units
atob(data) ==
    LET stripped == SelectSeq(data, NotWhitespace)
        digits   == StripPadding(stripped)
    IN  IF Len(digits) % 4 = 1
        THEN Throw("InvalidCharacterError")
        ELSE IF \E i \in 1..Len(digits) : digits[i] \notin B64Chars
        THEN Throw("InvalidCharacterError")
        ELSE Return(DecodeDigits(digits))

\* storing a number into a Uint8Array element
ToUint8(n) == n % 256

\* new Int16Array(buffer): a view of byteLength/2 signed 16-bit elements in
\* the platform's byte order (little-endian); a byte length that is not a
\* multiple of 2 is a RangeError
Int16Array(bytes) ==
    IF Len(bytes) % 2 # 0
    THEN Throw("RangeError")
    ELSE Return([i \in 1..(Len(bytes) \div 2) |->
                    LET u == bytes[2 * i - 1] + 256 * bytes[2 * i]
                    IN  IF u >= 32768 THEN u - 65536 ELSE u])

\* a Float32 frame value, kept exact as a fraction
Frac(n, d) == [num |-> n, den |-> d]

FracEq(a, b) == a.num * b.den = b.num * a.den

\* BaseAudioContext.createBuffer: a zero-filled buffer; a channel count or
\* a length of zero is a NotSupportedError
createBuffer(numberOfChannels, length, rate) ==
    IF numberOfChannels < 1 \/ length < 1
    THEN Throw("NotSupportedError")
    ELSE Return([numberOfChannels |-> numberOfChannels,
                 length           |-> length,
                 sampleRate       |-> rate,
                 channelData      |-> [i \in 1..length |-> Frac(0, 1)]])

\* DataView.prototype.setUint8 at a byte offset
setUint8(view, offset, value) ==
    [view EXCEPT ![offset + 1] = value % 256]

\* DataView.prototype.setUint16 at a byte offset
setUint16(view, offset, value, littleEndian) ==
    LET v  == value % 65536
        lo == v % 256
        hi == v \div 256
    IN  IF littleEndian
        THEN [view EXCEPT ![offset + 1] = lo, ![offset + 2] = hi]
        ELSE [view EXCEPT ![offset + 1] = hi, ![offset + 2] = lo]

\* DataView.prototype.setUint32 at a byte offset: the four low bytes of the
\* value, which is the value modulo 2^32
setUint32(view, offset, value, littleEndian) ==
    LET b0 == value % 256
        b1 == (value \div 256) % 256
        b2 == (value \div 65536) % 256
        b3 == (value \div 16777216) % 256
    IN  IF littleEndian
        THEN [view EXCEPT ![offset + 1] = b0, ![offset + 2] = b1,
                          ![offset + 3] = b2, ![offset + 4] = b3]
        ELSE [view EXCEPT ![offset + 1] = b3, ![offset + 2] = b2,
                          ![offset + 3] = b1, ![offset + 4] = b0]

\* new ArrayBuffer(n): n zero bytes
ArrayBuffer(n) == [i \in 1..n |-> 0]

\* Uint8Array.prototype.set(source, offset): copies source into the target
\* from the offset on
Uint8ArraySet(target, source, offset) ==
    [i \in 1..Len(target) |->
        IF i > offset /\ i <= offset + Len(source)
        THEN source[i - offset]
        ELSE target[i]]

\* ASCII lower case of one character
ToLowerChar(c) ==
    IF c \in B64Chars /\ B64Value(c) < 26 THEN B64Alphabet[B64Value(c) + 27] ELSE c

\* the type of a Blob or File: the empty string when the given type has a
\* character outside U+0020..U+007E, else the given type in ASCII lower case
BlobType(type) ==
    IF \E i \in 1..Len(type) : charCode(type[i]) < 32 \/ charCode(type[i]) > 126
    THEN << >>
    ELSE [i \in 1..Len(type) |-> ToLowerChar(type[i])]

\* new Blob([part], {type}): the bytes of the part, and the type
Blob(bytes, type) == [bytes |-> bytes, size |-> Len(bytes), type |-> BlobType(type)]

\* new File([blob], name, {type}): the bytes of the blob, the name, the type
File(blob, name, type) ==
    [bytes |-> blob.bytes, size |-> blob.size, name |-> name, type |-> BlobType(type)]

(***************************************************************************)
(* src/utils/audio.ts                                                      *)
(***************************************************************************)
\* decodeBase64 with the decode failure caught and an empty array returned
decodeBase64_Swallow(b64) ==
    LET binaryString == atob(b64)
    IN  IF binaryString.kind = "throw"
        THEN Return(<< >>)
        ELSE Return([i \in 1..Len(binaryString.value) |-> ToUint8(binaryString.value[i])])

\* decodeBase64 with the loop stopping one character early
decodeBase64_SkipLast(b64) ==
    LET binaryString == atob(b64)
    IN  IF binaryString.kind = "throw"
        THEN binaryString
        ELSE LET len == Len(binaryString.value)
             IN  Return([i \in 1..len |->
                            IF i < len THEN ToUint8(binaryString.value[i]) ELSE 0])

decodeBase64(b64) ==
    LET binaryString == atob(b64)
    IN  IF binaryString.kind = "throw"
        THEN binaryString
        ELSE LET len == Len(binaryString.value)
             IN  Return([i \in 1..len |-> ToUint8(binaryString.value[i])])

\* the view made over the whole samples only, a trailing byte left out
viewAsInt16_Truncating(data) == Int16Array(SubSeq(data, 1, 2 * (Len(data) \div 2)))

\* line 17: the bytes of data.buffer seen as 16-bit samples
viewAsInt16(data) == Int16Array(data)

\* the sample scaled by the largest positive sample instead of 32768
normalizeSample_32767(sample) == Frac(sample, 32767)

\* line 24: one sample scaled to a frame value
normalizeSample(sample) == Frac(sample, 32768)

\* the decoder allocating its buffer at the rate of the TTS model instead of
\* the rate of the context
decodeAudioDataBody_FixedRate(b64, ctx) ==
    LET data == decodeBase64(b64)
    IN  IF data.kind = "throw" THEN data
        ELSE
        LET dataInt16 == viewAsInt16(data.value)
        IN  IF dataInt16.kind = "throw" THEN dataInt16
            ELSE
            LET buffer == createBuffer(1, Len(dataInt16.value), 24000)
            IN  IF buffer.kind = "throw" THEN buffer
                ELSE Return([buffer.value EXCEPT
                        !.channelData = [i \in 1..buffer.value.length |->
                            normalizeSample(dataInt16.value[i])]])

decodeAudioDataBody(b64, ctx) ==
    LET data == decodeBase64(b64)
    IN  IF data.kind = "throw" THEN data
        ELSE
        LET dataInt16 == viewAsInt16(data.value)
        IN  IF dataInt16.kind = "throw" THEN dataInt16
            ELSE
            LET frameCount  == Len(dataInt16.value)
                numChannels == 1
                buffer      == createBuffer(numChannels, frameCount, ctx.sampleRate)
            IN  IF buffer.kind = "throw" THEN buffer
                ELSE Return([buffer.value EXCEPT
                        !.channelData = [i \in 1..buffer.value.length |->
                            IF i <= frameCount
                            THEN normalizeSample(dataInt16.value[i])
                            ELSE buffer.value.channelData[i]]])

\* the async function: its result is a promise, fulfilled with the returned
\* buffer or rejected with the thrown error
decodeAudioData(b64, ctx) == AsyncOutcome(decodeAudioDataBody(b64, ctx))

RECURSIVE writeString(_, _, _)
writeString(view, offset, str) ==
    IF Len(str) = 0 THEN view
    ELSE writeString(setUint8(view, offset, charCode(Head(str))), offset + 1, Tail(str))

\* the RIFF chunk descriptor with the whole file length as its size
writeRiffChunk_TotalSize(view, dataSize) ==
    LET v1 == writeString(view, 0, <<"R", "I", "F", "F">>)
        v2 == setUint32(v1, 4, 44 + dataSize, TRUE)
    IN  writeString(v2, 8, <<"W", "A", "V", "E">>)

\* lines 51-54: the RIFF chunk descriptor
writeRiffChunk(view, dataSize) ==
    LET v1 == writeString(view, 0, <<"R", "I", "F", "F">>)
        v2 == setUint32(v1, 4, 36 + dataSize, TRUE)
    IN  writeString(v2, 8, <<"W", "A", "V", "E">>)

\* the fmt sub-chunk with the byte rate computed in bits
writeFmtChunk_BitRate(view, sampleRate, numChannels, bitsPerSample) ==
    LET v1 == writeString(view, 12, <<"f", "m", "t", " ">>)
        v2 == setUint32(v1, 16, 16, TRUE)
        v3 == setUint16(v2, 20, 1, TRUE)
        v4 == setUint16(v3, 22, numChannels, TRUE)
        v5 == setUint32(v4, 24, sampleRate, TRUE)
        v6 == setUint32(v5, 28, sampleRate * numChannels * bitsPerSample, TRUE)
        v7 == setUint16(v6, 32, numChannels * (bitsPerSample \div 8), TRUE)
    IN  setUint16(v7, 34, bitsPerSample, TRUE)

\* lines 56-64: the fmt sub-chunk
writeFmtChunk(view, sampleRate, numChannels, bitsPerSample) ==
    LET v1 == writeString(view, 12, <<"f", "m", "t", " ">>)
        v2 == setUint32(v1, 16, 16, TRUE)
        v3 == setUint16(v2, 20, 1, TRUE)
        v4 == setUint16(v3, 22, numChannels, TRUE)
        v5 == setUint32(v4, 24, sampleRate, TRUE)
        v6 == setUint32(v5, 28, sampleRate * numChannels * (bitsPerSample \div 8), TRUE)
        v7 == setUint16(v6, 32, numChannels * (bitsPerSample \div 8), TRUE)
    IN  setUint16(v7, 34, bitsPerSample, TRUE)

\* lines 66-68: the data sub-chunk header
writeDataChunk(view, dataSize) ==
    LET v1 == writeString(view, 36, <<"d", "a", "t", "a">>)
    IN  setUint32(v1, 40, dataSize, TRUE)

\* the encoder reporting a decode failure as an error of its own
createWavBlobFromBase64_WrapError(b64) ==
    LET pcmData == decodeBase64(b64)
    IN  IF pcmData.kind = "throw" THEN Throw("InvalidAudioDataError")
        ELSE
        LET dataSize == Len(pcmData.value)
            riff     == writeRiffChunk(ArrayBuffer(44 + dataSize), dataSize)
            header   == writeDataChunk(writeFmtChunk(riff, 24000, 1, 16), dataSize)
            filled   == Uint8ArraySet(header, pcmData.value, 44)
        IN  Return(Blob(filled, <<"a", "u", "d", "i", "o", "/", "w", "a", "v">>))

\* the encoder with the samples copied over the end of the header
createWavBlobFromBase64_DataAt40(b64) ==
    LET pcmData == decodeBase64(b64)
    IN  IF pcmData.kind = "throw" THEN pcmData
        ELSE
        LET dataSize == Len(pcmData.value)
            riff     == writeRiffChunk(ArrayBuffer(44 + dataSize), dataSize)
            header   == writeDataChunk(writeFmtChunk(riff, 24000, 1, 16), dataSize)
            filled   == Uint8ArraySet(header, pcmData.value, 40)
        IN  Return(Blob(filled, <<"a", "u", "d", "i", "o", "/", "w", "a", "v">>))

\* the encoder refusing a payload without samples
createWavBlobFromBase64_RejectEmpty(b64) ==
    LET pcmData == decodeBase64(b64)
    IN  IF pcmData.kind = "throw" THEN pcmData
        ELSE IF Len(pcmData.value) = 0 THEN Throw("Error")
        ELSE
        LET dataSize == Len(pcmData.value)
            riff     == writeRiffChunk(ArrayBuffer(44 + dataSize), dataSize)
            header   == writeDataChunk(writeFmtChunk(riff, 24000, 1, 16), dataSize)
            filled   == Uint8ArraySet(header, pcmData.value, 44)
        IN  Return(Blob(filled, <<"a", "u", "d", "i", "o", "/", "w", "a", "v">>))

createWavBlobFromBase64(b64) ==
    LET pcmData == decodeBase64(b64)
    IN  IF pcmData.kind = "throw" THEN pcmData
        ELSE
        LET sampleRate    == 24000
            numChannels   == 1
            bitsPerSample == 16
            dataSize      == Len(pcmData.value)
            buffer        == ArrayBuffer(44 + dataSize)
            riff          == writeRiffChunk(buffer, dataSize)
            fmt           == writeFmtChunk(riff, sampleRate, numChannels, bitsPerSample)
            header        == writeDataChunk(fmt, dataSize)
            filled        == Uint8ArraySet(header, pcmData.value, 44)
        IN  Return(Blob(filled, <<"a", "u", "d", "i", "o", "/", "w", "a", "v">>))

(***************************************************************************)
(* src/unnamed/part_000                                                    *)
(***************************************************************************)
\* the adapter collecting the bytes in a signed byte array
base64toFile_Int8(b64, filename, mimeType) ==
    LET byteCharacters == atob(b64)
    IN  IF byteCharacters.kind = "throw" THEN byteCharacters
        ELSE
        LET byteArray == [i \in 1..Len(byteCharacters.value) |->
                             IF byteCharacters.value[i] >= 128
                             THEN byteCharacters.value[i] - 256
                             ELSE byteCharacters.value[i]]
            blob      == Blob(byteArray, mimeType)
        IN  Return(File(blob, filename, mimeType))

\* the adapter with the type given to the blob only, not to the file
base64toFile_NoFileType(b64, filename, mimeType) ==
    LET byteCharacters == atob(b64)
    IN  IF byteCharacters.kind = "throw" THEN byteCharacters
        ELSE
        LET byteArray == [i \in 1..Len(byteCharacters.value) |-> ToUint8(byteCharacters.value[i])]
            blob      == Blob(byteArray, mimeType)
        IN  Return(File(blob, filename, << >>))

base64toFile(b64, filename, mimeType) ==
    LET byteCharacters == atob(b64)
    IN  IF byteCharacters.kind = "throw" THEN byteCharacters
        ELSE
        LET byteNumbers == [i \in 1..Len(byteCharacters.value) |-> byteCharacters.value[i]]
            byteArray   == [i \in 1..Len(byteNumbers) |-> ToUint8(byteNumbers[i])]
            blob        == Blob(byteArray, mimeType)
        IN  Return(File(blob, filename, mimeType))

(***************************************************************************)
(* The calls as a state machine: an input string is given, one of the four *)
(* functions is called on it, and its outcome is recorded.                 *)
(***************************************************************************)
\* no call is running side by side
(***************************************************************************)
(* The application: values.  JavaScript null is "null" where a string is   *)
(* expected, NoAnalysis where an analysis is, NoUrl where a URL is and     *)
(* NoError where an error text is.                                         *)
(***************************************************************************)
Null == "null"

NoAnalysis == [isNull |-> TRUE]

NoUrl == << >>

\* an error text is the sequence of the parts it is put together from; no
\* error is null
NoError == << >>

\* file.type of a photograph
MimeTypeOf(file) == "image/jpeg"

\* `data:${mimeType};base64,${imageBase64}`
DataUrl(mimeType, imageBase64) == <<"data", mimeType, imageBase64>>

\* dataUrl.split(',')[1]
Base64Of(dataUrl) == dataUrl[3]

NoTask == [kind |-> "none"]

\* the state object both components start from
initialState ==
    [processState |-> "Idle", imageFile |-> Null, imageDataUrl |-> NoUrl,
     analysis |-> NoAnalysis, error |-> NoError]

\* the storage area without the key
NoItem == [present |-> FALSE]

\* no component is running
NoApp ==
    /\ variant = "none"
    /\ mounted = FALSE
    /\ appState = initialState
    /\ history = << >>
    /\ localStorage = NoItem
    /\ effects = << >>
    /\ tasks = [t \in 1..MaxTasks |-> NoTask]
    /\ selectedVoice = "Kore"
    /\ isHistoryPanelOpen = FALSE
    /\ isRegeneratingAudio = FALSE

NoCalls ==
    /\ procs = << >>
    /\ heap = << >>

\* nothing has been played
NoPlayback ==
    /\ isPlaying = FALSE
    /\ audioContextRef = "none"
    /\ audioSourceRef = 0
    /\ sources = << >>
    /\ plays = << >>

\* no camera has been opened
NoCamera ==
    /\ cameras = << >>
    /\ streams = << >>
    /\ blobs = << >>

\* no video has been asked for
NoVideo ==
    /\ videoArgs = << >>
    /\ videoPc = "none"
    /\ generatedImages = << >>
    /\ referenceImages = << >>
    /\ operation = [done |-> FALSE]
    /\ pollCount = 0
    /\ progressMessage = [text |-> "", n |-> 0]
    /\ videoResult = [kind |-> "none"]

NoSide == NoPlayback /\ NoCamera /\ NoVideo

Init ==
    /\ base64 \in Inputs
    /\ call = "none"
    /\ args = << >>
    /\ outcome = [kind |-> "none"]
    /\ NoCalls
    /\ NoApp
    /\ NoSide

DecodeBase64Call ==
    /\ call = "none"
    /\ call' = "decodeBase64"
    /\ args' = << >>
    /\ outcome' = decodeBase64(base64)
    /\ UNCHANGED <<base64, callVars, appVars, sideVars>>

DecodeAudioDataCall ==
    /\ call = "none"
    /\ \E rate \in SampleRates :
         /\ call' = "decodeAudioData"
         /\ args' = [ctx |-> [sampleRate |-> rate]]
         /\ outcome' = decodeAudioData(base64, [sampleRate |-> rate])
    /\ UNCHANGED <<base64, callVars, appVars, sideVars>>

CreateWavBlobCall ==
    /\ call = "none"
    /\ call' = "createWavBlobFromBase64"
    /\ args' = << >>
    /\ outcome' = createWavBlobFromBase64(base64)
    /\ UNCHANGED <<base64, callVars, appVars, sideVars>>

Base64toFileCall ==
    /\ call = "none"
    /\ \E filename \in Filenames, mimeType \in MimeTypes :
         /\ call' = "base64toFile"
         /\ args' = [filename |-> filename, mimeType |-> mimeType]
         /\ outcome' = base64toFile(base64, filename, mimeType)
    /\ UNCHANGED <<base64, callVars, appVars, sideVars>>

Next ==
    \/ DecodeBase64Call
    \/ DecodeAudioDataCall
    \/ CreateWavBlobCall
    \/ Base64toFileCall

Spec == Init /\ [][Next]_vars

(***************************************************************************)
(* The same functions statement by statement, for calls running side by    *)
(* side.  A call keeps its locals in procs[p]; the buffer it allocates     *)
(* and writes lives in the heap.                                           *)
(***************************************************************************)
Calls == 1..NumCalls

CallFunctions == {"decodeAudioData", "createWavBlobFromBase64", "base64toFile"}

\* the context the application creates (HistoryPanel.tsx:122)
CallCtx == [sampleRate |-> 24000]

\* the characters /\s/ matches, among those of the model
RegexWhitespace == { " ", "\t", "\n", "\f", "\r" }

\* str.replace(/\s/g, '_')
replaceWhitespace(str) ==
    [i \in 1..Len(str) |-> IF str[i] \in RegexWhitespace THEN "_" ELSE str[i]]

\* the characters of str before its first '/', all of it when it has none
RECURSIVE beforeSlash(_)
beforeSlash(str) ==
    IF str = << >> \/ Head(str) = "/" THEN << >>
    ELSE <<Head(str)>> \o beforeSlash(Tail(str))

\* str.split('/')[1], << >> when it is undefined or empty
splitSecond(str) ==
    LET first == beforeSlash(str)
    IN  IF Len(first) = Len(str) THEN << >>
        ELSE beforeSlash(SubSeq(str, Len(first) + 2, Len(str)))

\* the file name handleShare builds (geminiService.ts:313)
shareFilename(name, imageMimeType) ==
    LET extension == splitSecond(imageMimeType)
    IN  replaceWhitespace(name) \o <<".">>
          \o (IF extension = << >> THEN <<"j", "p", "e", "g">> ELSE extension)

\* the name of the analysis shared
CallName == <<"E", "i", "f", "f", "e", "l", " ", "T", "o", "w", "e", "r">>

CallMimeType == <<"i", "m", "a", "g", "e", "/", "j", "p", "e", "g">>

CallFilename == shareFilename(CallName, CallMimeType)

\* the buffer every call makes use of is the one it allocated itself
bufferOf_Shared(p) == 1

\* the buffer call p allocates: a fresh one per call
bufferOf(p) == p

\* a call suspending inside its fill loop
AwaitPoints_InLoop == {"fill"}

\* the positions at which a function body gives control back to the event
\* loop before it has finished: the bodies hold no await
AwaitPoints == { }

NewCall(fn, b64) ==
    [fn |-> fn, b64 |-> b64, pc |-> "start", data |-> << >>, samples |-> << >>,
     meta |-> << >>, i |-> 0, result |-> [kind |-> "none"]]

InitCalls ==
    /\ procs \in [Calls -> { NewCall(fn, b64) : fn \in CallFunctions, b64 \in CallPayloads }]
    /\ heap = [b \in Calls |-> << >>]
    /\ base64 = << >>
    /\ call = "none"
    /\ args = << >>
    /\ outcome = [kind |-> "none"]
    /\ NoApp
    /\ NoSide

\* the positions at which a call has ended: a returned or thrown sync call,
\* a settled promise, a promise whose result the awaiting caller has got
Ended == {"done", "settled", "delivered"}

\* call p ends with outcome r
Finish(st, p, r) ==
    [st EXCEPT !.procs[p].result = r,
               !.procs[p].pc = IF st.procs[p].fn = "decodeAudioData" THEN "settled" ELSE "done"]

\* one statement of decodeAudioData (audio.ts:16-27)
stepDecodeAudioData(st, p) ==
    LET me == st.procs[p]
        b  == bufferOf(p)
    IN  CASE me.pc = "start" ->
               LET data == decodeBase64(me.b64)
               IN  IF data.kind = "throw" THEN Finish(st, p, AsyncOutcome(data))
                   ELSE [st EXCEPT !.procs[p].data = data.value, !.procs[p].pc = "view"]
          [] me.pc = "view" ->
               LET dataInt16 == viewAsInt16(me.data)
               IN  IF dataInt16.kind = "throw" THEN Finish(st, p, AsyncOutcome(dataInt16))
                   ELSE [st EXCEPT !.procs[p].samples = dataInt16.value, !.procs[p].pc = "alloc"]
          [] me.pc = "alloc" ->
               LET buffer == createBuffer(1, Len(me.samples), CallCtx.sampleRate)
               IN  IF buffer.kind = "throw" THEN Finish(st, p, AsyncOutcome(buffer))
                   ELSE [st EXCEPT !.heap[b] = buffer.value.channelData,
                                   !.procs[p].meta = buffer.value,
                                   !.procs[p].i = 0,
                                   !.procs[p].pc = "fill"]
          [] me.pc = "fill" ->
               IF me.i < Len(me.samples)
               THEN [st EXCEPT !.heap[b][me.i + 1] = normalizeSample(me.samples[me.i + 1]),
                               !.procs[p].i = me.i + 1]
               ELSE Finish(st, p, AsyncOutcome(Return(
                        [me.meta EXCEPT !.channelData = st.heap[b]])))

\* one statement of createWavBlobFromBase64 (audio.ts:42-73)
stepCreateWavBlob(st, p) ==
    LET me == st.procs[p]
        b  == bufferOf(p)
        dataSize == Len(me.data)
    IN  CASE me.pc = "start" ->
               LET pcmData == decodeBase64(me.b64)
               IN  IF pcmData.kind = "throw" THEN Finish(st, p, pcmData)
                   ELSE [st EXCEPT !.procs[p].data = pcmData.value, !.procs[p].pc = "alloc"]
          [] me.pc = "alloc" ->
               [st EXCEPT !.heap[b] = ArrayBuffer(44 + dataSize), !.procs[p].pc = "riff"]
          [] me.pc = "riff" ->
               [st EXCEPT !.heap[b] = writeRiffChunk(@, dataSize), !.procs[p].pc = "fmt"]
          [] me.pc = "fmt" ->
               [st EXCEPT !.heap[b] = writeFmtChunk(@, 24000, 1, 16), !.procs[p].pc = "datahdr"]
          [] me.pc = "datahdr" ->
               [st EXCEPT !.heap[b] = writeDataChunk(@, dataSize), !.procs[p].pc = "copy"]
          [] me.pc = "copy" ->
               [st EXCEPT !.heap[b] = Uint8ArraySet(@, me.data, 44), !.procs[p].pc = "blob"]
          [] me.pc = "blob" ->
               Finish(st, p, Return(Blob(st.heap[b], <<"a", "u", "d", "i", "o", "/", "w", "a", "v">>)))

\* one statement of base64toFile (part_000:9-16)
stepBase64toFile(st, p) ==
    LET me == st.procs[p]
        b  == bufferOf(p)
    IN  CASE me.pc = "start" ->
               LET byteCharacters == atob(me.b64)
               IN  IF byteCharacters.kind = "throw" THEN Finish(st, p, byteCharacters)
                   ELSE [st EXCEPT !.procs[p].data = byteCharacters.value,
                                   !.procs[p].pc = "alloc"]
          [] me.pc = "alloc" ->
               [st EXCEPT !.heap[b] = [i \in 1..Len(me.data) |-> 0],
                          !.procs[p].i = 0,
                          !.procs[p].pc = "fill"]
          [] me.pc = "fill" ->
               IF me.i < Len(me.data)
               THEN [st EXCEPT !.heap[b][me.i + 1] = me.data[me.i + 1],
                               !.procs[p].i = me.i + 1]
               ELSE [st EXCEPT !.procs[p].pc = "file"]
          [] me.pc = "file" ->
               LET byteNumbers == st.heap[b]
                   byteArray   == [i \in 1..Len(byteNumbers) |-> ToUint8(byteNumbers[i])]
                   blob        == Blob(byteArray, CallMimeType)
               IN  Finish(st, p, Return(File(blob, CallFilename, CallMimeType)))

\* one statement of call p
stepCall(st, p) ==
    CASE st.procs[p].fn = "decodeAudioData"         -> stepDecodeAudioData(st, p)
      [] st.procs[p].fn = "createWavBlobFromBase64" -> stepCreateWavBlob(st, p)
      [] st.procs[p].fn = "base64toFile"            -> stepBase64toFile(st, p)

RECURSIVE runCall(_, _)
\* call p run until it ends or suspends
runCall(st, p) ==
    LET next == stepCall(st, p)
    IN  IF next.procs[p].pc \in Ended \cup AwaitPoints THEN next ELSE runCall(next, p)

\* logical threads of control: any call that has not ended executes its next
\* statement
ThreadStep(p) ==
    /\ procs[p].pc \notin Ended
    /\ LET next == stepCall([procs |-> procs, heap |-> heap], p)
       IN  /\ procs' = next.procs
           /\ heap' = next.heap
    /\ UNCHANGED <<audioVars, appVars, sideVars>>

NextThreads == \E p \in Calls : ThreadStep(p)

SpecThreads == InitCalls /\ [][NextThreads]_vars

\* the event loop: a task calls the function, which runs until it ends or
\* suspends; a suspended call is resumed by a later task
RunCall(p) ==
    /\ procs[p].pc \in {"start"} \cup AwaitPoints
    /\ LET next == runCall([procs |-> procs, heap |-> heap], p)
       IN  /\ procs' = next.procs
           /\ heap' = next.heap
    /\ UNCHANGED <<audioVars, appVars, sideVars>>

\* the caller awaiting decodeAudioData gets the result in a later microtask
\* (geminiService.ts:243)
DeliverResult(p) ==
    /\ procs[p].pc = "settled"
    /\ procs' = [procs EXCEPT ![p].pc = "delivered"]
    /\ UNCHANGED <<heap, audioVars, appVars, sideVars>>

NextLoop == \E p \in Calls : RunCall(p) \/ DeliverResult(p)

SpecLoop == InitCalls /\ [][NextLoop]_vars

(***************************************************************************)
(* The application: JSON and the storage area.                             *)
(***************************************************************************)
\* the order in which the analysis objects are given their properties
\* (App.tsx:109-117)
KeyOrder ==
    <<"name", "history", "sources", "audioData", "imageBase64", "imageMimeType",
      "isLandmark">>

\* JSON.stringify of one object: its own properties, in order, as
\* key/value members
stringifyObject(obj) ==
    LET keys == SelectSeq(KeyOrder, LAMBDA k : k \in DOMAIN obj)
    IN  [i \in 1..Len(keys) |-> <<keys[i], obj[keys[i]]>>]

\* JSON.stringify of a history list
JSONstringify(value) == [i \in 1..Len(value) |-> stringifyObject(value[i])]

\* JSON.parse of one object text
parseObject(members) ==
    [k \in { members[i][1] : i \in 1..Len(members) } |->
        LET last == CHOOSE i \in 1..Len(members) :
                        /\ members[i][1] = k
                        /\ \A j \in 1..Len(members) : members[j][1] = k => j <= i
        IN  members[last][2]]

\* JSON.parse of the text of a history list
JSONparse(text) == [i \in 1..Len(text) |-> parseObject(text[i])]

\* entries the storage area has room for under the key; a text that is
\* longer makes setItem throw QuotaExceededError
StorageQuota == 1

\* localStorage.setItem('landmarkHistory', text) inside try/catch: the new
\* storage area
setItem(storage, text) ==
    IF Len(text) > StorageQuota
    THEN storage
    ELSE [present |-> TRUE, text |-> text]

\* localStorage.getItem('landmarkHistory') is truthy
Truthy(storage) == storage.present

(***************************************************************************)
(* The application: the services, as the answers they may give.            *)
(***************************************************************************)
Rejected(message) == [kind |-> "rejected", error |-> message]

Fulfilled(value) == [kind |-> "fulfilled", value |-> value]

\* identifyLandmark of src/services/geminiService.ts:31-61: the parsed
\* answer, the error of the catch (46-60) when the text cannot be used, or
\* the error of the request itself, which is awaited outside the try (32)
IdentifyAnswers ==
    { Fulfilled([isLandmark |-> TRUE, name |-> n, description |-> Null]) : n \in Names }
    \cup { Fulfilled([isLandmark |-> FALSE, name |-> Null, description |-> d]) :
             d \in {Null, "", "A cat on a sofa."} }
    \cup { Rejected("Could not understand the response from the identification service."),
           Rejected("Network error") }

\* fetchLandmarkHistory of src/services/geminiService.ts:63-76
HistoryAnswers ==
    { Fulfilled([text |-> "A brief history.", sources |-> << >>]),
      Rejected("Network error") }

\* JavaScript undefined, where a string is expected
Undefined == "undefined"

\* the base64 audio the speech model produces for a voice
AudioOf(voiceName) == IF voiceName = "Kore" THEN "AAEAAg==" ELSE "/38A"

\* what response.candidates?.[0]?.content?.parts?.[0]?.inlineData?.data may
\* be: the audio, an empty string, or undefined when a link is missing
InlineData(voiceName) == {AudioOf(voiceName), "", Undefined}

\* narrateText returning whatever the response holds
narrateText_NoCheck(audioData) == Fulfilled(audioData)

\* narrateText from the response on (geminiService.ts:92-96)
narrateText(audioData) ==
    IF audioData = Undefined \/ audioData = ""
    THEN Rejected("Failed to generate audio from text.")
    ELSE Fulfilled(audioData)

\* narrateText of src/services/geminiService.ts:78-97: the request fails, or
\* its response is looked at
NarrateAnswers(voiceName) ==
    { narrateText(audioData) : audioData \in InlineData(voiceName) }
    \cup { Rejected("Network error") }

(***************************************************************************)
(* The application: src/App.tsx.                                           *)
(***************************************************************************)
FreeTasks == { t \in 1..MaxTasks : tasks[t] = NoTask }

\* every effect has run
\* no playNarration is at the await of decodeAudioData, whose promise is
\* settled when it is made: its continuation is a promise job and runs
\* before any event
NoJob == \A k \in 1..Len(plays) : plays[k].pc # "decodeAudioData"

Quiescent == effects = << >> /\ NoJob

LoadEffect == [kind |-> "load"]

SaveEffect(h) == [kind |-> "save", history |-> h]

\* the part of the state the handlers of App.tsx never touch
appRest == <<variant, mounted, audioVars, callVars, sideVars, isRegeneratingAudio>>

\* the first render: the page is opened on one of the two components, and
\* React schedules the effects of the render
Mount ==
    /\ ~mounted
    /\ variant \in {"A", "B"}
    /\ mounted' = TRUE
    /\ effects' = IF variant = "A" THEN <<LoadEffect, SaveEffect(history)>>
                                   ELSE <<LoadEffect>>
    /\ UNCHANGED <<variant, appState, history, localStorage, tasks, selectedVoice,
                   isHistoryPanelOpen, isRegeneratingAudio, audioVars, callVars, sideVars>>

\* the load effect that leaves the history as it is
loadHistory_Ignore(storage, current) == current

\* the load effect (App.tsx:37-46, geminiService.ts:151-161)
loadHistory(storage, current) ==
    IF Truthy(storage) THEN JSONparse(storage.text) ELSE current

\* the save effect (App.tsx:49-55), on the history of the render that
\* scheduled it
saveHistory(storage, h) == setItem(storage, JSONstringify(h))

\* React runs the next scheduled effect; a load that sets the history makes
\* the component render again, which schedules the save effect of that
\* render
RunEffect ==
    /\ mounted
    /\ effects # << >>
    /\ LET e == Head(effects)
       IN  IF e.kind = "load"
           THEN /\ history' = loadHistory(localStorage, history)
                /\ effects' = IF Truthy(localStorage) /\ variant = "A"
                              THEN Tail(effects) \o <<SaveEffect(history')>>
                              ELSE Tail(effects)
                /\ UNCHANGED localStorage
           ELSE /\ localStorage' = saveHistory(localStorage, e.history)
                /\ effects' = Tail(effects)
                /\ UNCHANGED history
    /\ UNCHANGED <<appState, tasks, selectedVoice, isHistoryPanelOpen, appRest>>

\* the page is closed and opened again: the component state, the refs, the
\* effects not yet run and the callbacks not yet delivered are gone with
\* the page, its audio and its camera tracks end, the storage area stays
Reload ==
    /\ mounted
    /\ mounted' = FALSE
    /\ effects' = << >>
    /\ appState' = initialState
    /\ history' = << >>
    /\ tasks' = [t \in 1..MaxTasks |-> NoTask]
    /\ selectedVoice' = "Kore"
    /\ isHistoryPanelOpen' = FALSE
    /\ isRegeneratingAudio' = FALSE
    /\ isPlaying' = FALSE
    /\ audioContextRef' = "none"
    /\ audioSourceRef' = 0
    /\ sources' = << >>
    /\ plays' = << >>
    /\ cameras' = [x \in 1..Len(cameras) |->
                      [cameras[x] EXCEPT !.mounted = FALSE, !.pageClosed = TRUE]]
    /\ streams' = [x \in 1..Len(streams) |-> [streams[x] EXCEPT !.state = "stopped"]]
    /\ blobs' = << >>
    /\ UNCHANGED <<variant, localStorage, audioVars, callVars, videoVars>>

\* what a handler of App.tsx leaves alone besides the history
appKeep == <<localStorage, appRest>>

\* cleanupCamera (part_003:15-20) of an instance: the instance after it
cleanupCamera(camera) ==
    [camera EXCEPT !.streamRef = 0]

\* the instance unmounted by setIsCameraOpen(false): the cleanup of its
\* effect runs cleanupCamera (part_003:50-52)
unmounted(camera) ==
    [cleanupCamera(camera) EXCEPT !.mounted = FALSE]

\* the stop of the tracks of every instance in the set
RECURSIVE stoppedAll(_, _)
stoppedAll(str, cs) ==
    IF cs = { } THEN str
    ELSE LET c == CHOOSE x \in cs : TRUE
             ref == cameras[c].streamRef
         IN  stoppedAll(IF ref # 0 THEN [str EXCEPT ![ref].state = "stopped"] ELSE str,
                        cs \ {c})

Mounted == { c \in 1..Len(cameras) : cameras[c].mounted }

\* the ImageUploader leaves the screen: the CameraCapture it renders is
\* unmounted with it, and the instances it has rendered keep a
\* setIsCameraOpen that changes nothing any more
uploaderUnmounted(cs) ==
    [x \in 1..Len(cs) |->
        [(IF cs[x].mounted THEN unmounted(cs[x]) ELSE cs[x]) EXCEPT !.uploaderGone = TRUE]]

\* the file handleCapture makes of the blob (part_003:69)
CapturedFile == "capture"

\* the ImageUploader is rendered with this state (App.tsx:149-153;
\* geminiService.ts:421-424)
UploaderShownIn(state) ==
    IF variant = "A"
    THEN state.processState = "Idle"
    ELSE state.processState # "Loading" /\ state.imageDataUrl = NoUrl

UploaderShown == UploaderShownIn(appState)

\* the render of the new state: when it takes the ImageUploader off the
\* screen, the CameraCapture the uploader renders is unmounted and the
\* cleanup of its effect stops the tracks it holds (part_003:50-52)
render ==
    IF UploaderShown /\ ~UploaderShownIn(appState')
    THEN /\ streams' = stoppedAll(streams, Mounted)
         /\ cameras' = uploaderUnmounted(cameras)
    ELSE UNCHANGED <<cameras, streams>>

\* what a handler of App.tsx leaves alone besides the history and the camera
appKeepA == <<localStorage, variant, mounted, audioVars, callVars, playVars, videoVars,
              blobs, isRegeneratingAudio>>

\* handleImageChange up to reader.readAsDataURL (App.tsx:57-58,67), with the
\* file the caller hands over
readAsDataURL(file) ==
    /\ FreeTasks # { }
    /\ LET t == CHOOSE x \in FreeTasks : \A y \in FreeTasks : x <= y
       IN  tasks' = [tasks EXCEPT ![t] = [kind |-> "readAsDataURL", pc |-> "onload", file |-> file]]

\* handleImageChange (App.tsx:57-68) from the file input; the uploader is
\* rendered in Idle
handleImageChange(file) ==
    /\ mounted /\ Quiescent /\ variant = "A"
    /\ appState.processState = "Idle"
    /\ readAsDataURL(file)
    /\ UNCHANGED <<appState, history, effects, selectedVoice, isHistoryPanelOpen, appKeep>>

\* the events a FileReader ends with; the code listens to load only
ReaderEvents == {"load", "error"}

\* the reader ends: reader.onload (App.tsx:59-66) sets the state whatever
\* it is by then, which takes the uploader and its camera off the screen
readerOnload(t, event) ==
    /\ mounted /\ Quiescent /\ variant = "A"
    /\ tasks[t] # NoTask
    /\ tasks[t].kind = "readAsDataURL"
    /\ tasks' = [tasks EXCEPT ![t] = NoTask]
    /\ IF event = "load"
       THEN /\ appState' = [initialState EXCEPT
                               !.processState = "ImageUploaded",
                               !.imageFile = tasks[t].file,
                               !.imageDataUrl = DataUrl(MimeTypeOf(tasks[t].file),
                                                        tasks[t].file)]
       ELSE UNCHANGED appState
    /\ render
    /\ UNCHANGED <<history, effects, selectedVoice, isHistoryPanelOpen, appKeepA>>

\* the voice select of the ImageUploaded screen (App.tsx:199)
setSelectedVoice(v) ==
    /\ mounted /\ Quiescent /\ variant = "A"
    /\ appState.processState = "ImageUploaded"
    /\ v # selectedVoice
    /\ selectedVoice' = v
    /\ UNCHANGED <<appState, history, effects, tasks, isHistoryPanelOpen, appKeep>>

\* startAnalysis up to its first await (App.tsx:70-79); the button is
\* rendered in ImageUploaded
startAnalysis ==
    /\ mounted /\ Quiescent /\ variant = "A"
    /\ appState.processState = "ImageUploaded"
    /\ appState.imageFile # Null /\ appState.imageDataUrl # NoUrl
    /\ FreeTasks # { }
    /\ LET t == CHOOSE x \in FreeTasks : \A y \in FreeTasks : x <= y
       IN  tasks' = [tasks EXCEPT ![t] =
                        [kind |-> "startAnalysis", pc |-> "identifyLandmark",
                         imageMimeType |-> MimeTypeOf(appState.imageFile),
                         imageBase64 |-> Base64Of(appState.imageDataUrl),
                         voice |-> selectedVoice,
                         landmarkName |-> Null, historyText |-> Null, sources |-> << >>]]
    /\ appState' = [appState EXCEPT !.processState = "Loading"]
    /\ UNCHANGED <<history, effects, selectedVoice, isHistoryPanelOpen, appKeepA>>
    /\ render

\* the catch clause of startAnalysis (App.tsx:122-126)
analysisFailed_StayLoading(state, message) ==
    [state EXCEPT !.error = <<message>>]

analysisFailed(state, message) ==
    [state EXCEPT !.processState = "Error", !.error = <<message>>]

\* the analysis shown for an image that is not a landmark (App.tsx:82-90)
nonLandmarkAnalysis(identification, imageBase64, imageMimeType) ==
    [name |-> "Not a Landmark",
     history |-> IF identification.description \notin {Null, ""}
                 THEN identification.description
                 ELSE "The image uploaded does not appear to contain a recognizable landmark.",
     sources |-> << >>,
     audioData |-> Null,
     imageBase64 |-> imageBase64,
     imageMimeType |-> imageMimeType,
     isLandmark |-> FALSE]

\* startAnalysis treating every answer as a landmark
isNonLandmark_Never(identification) == FALSE

\* the test of App.tsx:81
isNonLandmark(identification) == ~identification.isLandmark

\* startAnalysis from the answer of identifyLandmark to the next await
\* (App.tsx:79-103)
identifyLandmarkSettles(t, answer) ==
    /\ mounted /\ Quiescent /\ variant = "A"
    /\ tasks[t] # NoTask
    /\ tasks[t].kind = "startAnalysis" /\ tasks[t].pc = "identifyLandmark"
    /\ IF answer.kind = "rejected"
       THEN /\ appState' = analysisFailed(appState, answer.error)
            /\ tasks' = [tasks EXCEPT ![t] = NoTask]
       ELSE IF isNonLandmark(answer.value)
       THEN /\ appState' = [appState EXCEPT
                   !.processState = "Done",
                   !.analysis = nonLandmarkAnalysis(answer.value, tasks[t].imageBase64,
                                                    tasks[t].imageMimeType)]
            /\ tasks' = [tasks EXCEPT ![t] = NoTask]
       ELSE /\ tasks' = [tasks EXCEPT ![t].pc = "fetchLandmarkHistory",
                                      ![t].landmarkName = answer.value.name]
            /\ UNCHANGED appState
    /\ UNCHANGED <<history, effects, selectedVoice, isHistoryPanelOpen, appKeepA>>
    /\ render

\* startAnalysis from the answer of fetchLandmarkHistory to the next await
\* (App.tsx:103-107)
fetchLandmarkHistorySettles(t, answer) ==
    /\ mounted /\ Quiescent /\ variant = "A"
    /\ tasks[t] # NoTask
    /\ tasks[t].kind = "startAnalysis" /\ tasks[t].pc = "fetchLandmarkHistory"
    /\ IF answer.kind = "rejected"
       THEN /\ appState' = analysisFailed(appState, answer.error)
            /\ tasks' = [tasks EXCEPT ![t] = NoTask]
       ELSE /\ tasks' = [tasks EXCEPT ![t].pc = "narrateText",
                                      ![t].historyText = answer.value.text,
                                      ![t].sources = answer.value.sources]
            /\ UNCHANGED appState
    /\ UNCHANGED <<history, effects, selectedVoice, isHistoryPanelOpen, appKeepA>>
    /\ render

\* the analysis startAnalysis builds (App.tsx:109-117)
finalAnalysis(task, audioData) ==
    [name |-> task.landmarkName,
     history |-> task.historyText,
     sources |-> task.sources,
     audioData |-> audioData,
     imageBase64 |-> task.imageBase64,
     imageMimeType |-> task.imageMimeType,
     isLandmark |-> TRUE]

\* the history update that puts the analysis in front of the other entries
\* in reverse order
insertAnalysis_Reversed(prevHistory, analysis) ==
    LET others == SelectSeq(prevHistory, LAMBDA item : item.name # analysis.name)
    IN  <<analysis>> \o [i \in 1..Len(others) |-> others[Len(others) + 1 - i]]

\* the history update of App.tsx:120 and geminiService.ts:214
insertAnalysis(prevHistory, analysis) ==
    <<analysis>> \o SelectSeq(prevHistory, LAMBDA item : item.name # analysis.name)

\* startAnalysis from the answer of narrateText to its end (App.tsx:107-126)
narrateTextSettles(t, answer) ==
    /\ mounted /\ Quiescent /\ variant = "A"
    /\ tasks[t] # NoTask
    /\ tasks[t].kind = "startAnalysis" /\ tasks[t].pc = "narrateText"
    /\ answer \in NarrateAnswers(tasks[t].voice)
    /\ tasks' = [tasks EXCEPT ![t] = NoTask]
    /\ IF answer.kind = "rejected"
       THEN /\ appState' = analysisFailed(appState, answer.error)
            /\ UNCHANGED <<history, effects>>
       ELSE LET final == finalAnalysis(tasks[t], answer.value)
            IN  /\ appState' = [appState EXCEPT !.processState = "Done",
                                                !.analysis = final]
                /\ history' = insertAnalysis(history, final)
                /\ effects' = effects \o <<SaveEffect(history')>>
    /\ UNCHANGED <<selectedVoice, isHistoryPanelOpen, appKeepA>>
    /\ render

\* handleReset (App.tsx:129-131); its buttons are rendered in ImageUploaded,
\* Done and Error
handleReset ==
    /\ mounted /\ Quiescent /\ variant = "A"
    /\ appState.processState \in {"ImageUploaded", "Done", "Error"}
    /\ appState' = initialState
    /\ UNCHANGED <<history, effects, tasks, selectedVoice, isHistoryPanelOpen, appKeepA>>
    /\ render

\* the History button of the header (App.tsx:245-254, rendered while the
\* list is not empty; geminiService.ts:409-415, always rendered)
openHistoryPanel ==
    /\ mounted /\ Quiescent
    /\ ~isHistoryPanelOpen
    /\ variant = "A" => Len(history) > 0
    /\ isHistoryPanelOpen' = TRUE
    /\ UNCHANGED <<appState, history, effects, tasks, selectedVoice, appKeep>>

\* the onClose of the panel (App.tsx:265, geminiService.ts:460)
closeHistoryPanel ==
    /\ mounted /\ Quiescent
    /\ isHistoryPanelOpen
    /\ isHistoryPanelOpen' = FALSE
    /\ UNCHANGED <<appState, history, effects, tasks, selectedVoice, appKeep>>

\* handleSelectHistoryItem (App.tsx:133-141)
handleSelectHistoryItem(i) ==
    /\ mounted /\ Quiescent /\ variant = "A"
    /\ isHistoryPanelOpen
    /\ i \in 1..Len(history)
    /\ appState' = [initialState EXCEPT !.processState = "Done",
                                        !.analysis = history[i],
                                        !.imageDataUrl = DataUrl(history[i].imageMimeType,
                                                                 history[i].imageBase64)]
    /\ isHistoryPanelOpen' = FALSE
    /\ UNCHANGED <<history, effects, tasks, selectedVoice, appKeepA>>
    /\ render

\* handleClearHistory (App.tsx:143-146); the panel renders its button while
\* the list is not empty
handleClearHistory ==
    /\ mounted /\ Quiescent /\ variant = "A"
    /\ isHistoryPanelOpen
    /\ Len(history) > 0
    /\ history' = << >>
    /\ effects' = effects \o <<SaveEffect(history')>>
    /\ isHistoryPanelOpen' = FALSE
    /\ UNCHANGED <<appState, tasks, selectedVoice, appKeep>>

(***************************************************************************)
(* The application: the App component of src/services/geminiService.ts,    *)
(* which calls the services of src/unnamed/part_002.                       *)
(***************************************************************************)
\* identifyLandmark of src/unnamed/part_002:9-24: the text of the answer, a
\* rejection when the text is 'Unknown', the error of the request (10), or
\* the TypeError of response.text.trim() on a response without text (19)
IdentifyAnswersB ==
    { Fulfilled(n) : n \in Names } \cup { Fulfilled("") }
    \cup { Rejected("The uploaded image does not appear to be a famous landmark."),
           Rejected("Network error"),
           Rejected("Cannot read properties of undefined (reading 'trim')") }

\* fileToBase64 (geminiService.ts:119-130); a reader error is not an Error
FileAnswers(file) == { Fulfilled(file), Rejected("An unknown error occurred.") }

\* URL.createObjectURL(file)
ObjectUrl(file) == <<"blob", file>>

\* what a handler of this component leaves alone besides what it names
appKeepB0 == <<variant, mounted, effects, audioVars, callVars, cameraVars, videoVars>>

appKeepB == <<appKeepB0, playVars>>

\* the same for a handler whose new state is rendered
appKeepR0 == <<variant, mounted, effects, audioVars, callVars, blobs, videoVars>>

appKeepR == <<appKeepR0, playVars>>

\* stopNarration (geminiService.ts:262-266): stop() on the node the ref
\* holds; it silences a playing node and has no effect on one that stopped
stopNarration ==
    sources' = IF audioSourceRef # 0 /\ sources[audioSourceRef] = "playing"
               THEN [sources EXCEPT ![audioSourceRef] = "stopped"]
               ELSE sources

\* handleImageChange (geminiService.ts:164-176); the uploader is rendered
\* while nothing is loading and no image is shown
handleImageChangeB(file) ==
    /\ mounted /\ Quiescent /\ variant = "B"
    /\ appState.processState # "Loading" /\ appState.imageDataUrl = NoUrl
    /\ appState' = [processState |-> "ImageUploaded", imageFile |-> file,
                    imageDataUrl |-> ObjectUrl(file), analysis |-> NoAnalysis,
                    error |-> NoError]
    /\ UNCHANGED <<history, localStorage, tasks, selectedVoice, isHistoryPanelOpen,
                   isRegeneratingAudio, appKeepR>>
    /\ render

\* the result view is rendered
ResultShown == appState.imageDataUrl # NoUrl /\ appState.processState # "Loading"

\* handleAnalyzeClick up to its first await (geminiService.ts:178-184); the
\* button is rendered in ImageUploaded
handleAnalyzeClick ==
    /\ mounted /\ Quiescent /\ variant = "B"
    /\ ResultShown /\ appState.processState = "ImageUploaded"
    /\ appState.imageFile # Null
    /\ FreeTasks # { }
    /\ LET t == CHOOSE x \in FreeTasks : \A y \in FreeTasks : x <= y
       IN  tasks' = [tasks EXCEPT ![t] =
                        [kind |-> "handleAnalyzeClick", pc |-> "fileToBase64",
                         imageFile |-> appState.imageFile,
                         voice |-> selectedVoice,
                         imageBase64 |-> Null,
                         landmarkName |-> Null, historyText |-> Null, sources |-> << >>]]
    /\ appState' = [appState EXCEPT !.processState = "Loading", !.error = NoError]
    /\ UNCHANGED <<history, localStorage, selectedVoice, isHistoryPanelOpen,
                   isRegeneratingAudio, appKeepR>>
    /\ render

\* the catch clause of handleAnalyzeClick (geminiService.ts:223-227)
analysisFailedB(state, message) ==
    [state EXCEPT !.processState = "Error", !.error = <<"Analysis failed: ", message>>]

\* the task is a handleAnalyzeClick awaiting the named service
AwaitingB(t, pc) ==
    /\ mounted /\ Quiescent /\ variant = "B"
    /\ tasks[t] # NoTask
    /\ tasks[t].kind = "handleAnalyzeClick" /\ tasks[t].pc = pc

\* handleAnalyzeClick from the answer of fileToBase64 to the next await
\* (geminiService.ts:184-186)
fileToBase64Settles(t, answer) ==
    /\ AwaitingB(t, "fileToBase64")
    /\ answer \in FileAnswers(tasks[t].imageFile)
    /\ IF answer.kind = "rejected"
       THEN /\ appState' = analysisFailedB(appState, answer.error)
            /\ tasks' = [tasks EXCEPT ![t] = NoTask]
       ELSE /\ tasks' = [tasks EXCEPT ![t].pc = "identifyLandmark",
                                      ![t].imageBase64 = answer.value]
            /\ UNCHANGED appState
    /\ UNCHANGED <<history, localStorage, selectedVoice, isHistoryPanelOpen,
                   isRegeneratingAudio, appKeepR>>
    /\ render

\* handleAnalyzeClick from the answer of identifyLandmark to the next await
\* (geminiService.ts:186-191)
identifyLandmarkSettlesB(t, answer) ==
    /\ AwaitingB(t, "identifyLandmark")
    /\ IF answer.kind = "rejected"
       THEN /\ appState' = analysisFailedB(appState, answer.error)
            /\ tasks' = [tasks EXCEPT ![t] = NoTask]
       ELSE IF answer.value = ""
       THEN /\ appState' = analysisFailedB(appState, "Could not identify the landmark.")
            /\ tasks' = [tasks EXCEPT ![t] = NoTask]
       ELSE /\ tasks' = [tasks EXCEPT ![t].pc = "fetchLandmarkHistory",
                                      ![t].landmarkName = answer.value]
            /\ UNCHANGED appState
    /\ UNCHANGED <<history, localStorage, selectedVoice, isHistoryPanelOpen,
                   isRegeneratingAudio, appKeepR>>
    /\ render

\* handleAnalyzeClick from the answer of fetchLandmarkHistory to the next
\* await (geminiService.ts:191-195)
fetchLandmarkHistorySettlesB(t, answer) ==
    /\ AwaitingB(t, "fetchLandmarkHistory")
    /\ IF answer.kind = "rejected"
       THEN /\ appState' = analysisFailedB(appState, answer.error)
            /\ tasks' = [tasks EXCEPT ![t] = NoTask]
       ELSE /\ tasks' = [tasks EXCEPT ![t].pc = "narrateText",
                                      ![t].historyText = answer.value.text,
                                      ![t].sources = answer.value.sources]
            /\ UNCHANGED appState
    /\ UNCHANGED <<history, localStorage, selectedVoice, isHistoryPanelOpen,
                   isRegeneratingAudio, appKeepR>>
    /\ render

\* the analysis handleAnalyzeClick builds (geminiService.ts:197-204)
newAnalysis(task, audioData) ==
    [name |-> task.landmarkName,
     history |-> task.historyText,
     sources |-> task.sources,
     audioData |-> audioData,
     imageBase64 |-> task.imageBase64,
     imageMimeType |-> MimeTypeOf(task.imageFile)]

\* handleAnalyzeClick from the answer of narrateText to its end
\* (geminiService.ts:195-227)
narrateTextSettlesB(t, answer) ==
    /\ AwaitingB(t, "narrateText")
    /\ answer \in NarrateAnswers(tasks[t].voice)
    /\ tasks' = [tasks EXCEPT ![t] = NoTask]
    /\ IF answer.kind = "rejected"
       THEN /\ appState' = analysisFailedB(appState, answer.error)
            /\ UNCHANGED <<history, localStorage>>
       ELSE LET new == newAnalysis(tasks[t], answer.value)
            IN  /\ appState' = [appState EXCEPT !.processState = "Done",
                                                !.analysis = new]
                /\ history' = insertAnalysis(history, new)
                /\ localStorage' = setItem(localStorage, JSONstringify(history'))
    /\ UNCHANGED <<selectedVoice, isHistoryPanelOpen, isRegeneratingAudio, appKeepR>>
    /\ render

\* handleReset (geminiService.ts:268-282); its buttons are in the result
\* view and in the error box
handleResetB ==
    /\ mounted /\ Quiescent /\ variant = "B"
    /\ ResultShown \/ appState.error # NoError
    /\ stopNarration
    /\ appState' = initialState
    /\ isPlaying' = FALSE
    /\ UNCHANGED <<history, localStorage, tasks, selectedVoice, isHistoryPanelOpen,
                   isRegeneratingAudio, appKeepR0, audioContextRef, audioSourceRef,
                   plays>>
    /\ render

\* handleVoiceChange up to its await (geminiService.ts:335-342); the select
\* is rendered with an analysis and disabled while audio is regenerated
handleVoiceChange(newVoice) ==
    /\ mounted /\ Quiescent /\ variant = "B"
    /\ ResultShown /\ appState.analysis # NoAnalysis
    /\ ~isRegeneratingAudio
    /\ newVoice # selectedVoice
    /\ FreeTasks # { }
    /\ selectedVoice' = newVoice
    /\ isRegeneratingAudio' = TRUE
    /\ LET t == CHOOSE x \in FreeTasks : \A y \in FreeTasks : x <= y
       IN  tasks' = [tasks EXCEPT ![t] =
                        [kind |-> "handleVoiceChange", pc |-> "narrateText",
                         analysis |-> appState.analysis, voice |-> newVoice]]
    /\ stopNarration
    /\ UNCHANGED <<appState, history, localStorage, isHistoryPanelOpen, appKeepB0,
                   isPlaying, audioContextRef, audioSourceRef, plays>>

\* the history update of handleVoiceChange (geminiService.ts:351-353)
replaceAnalysis(prevHistory, updatedAnalysis) ==
    [i \in 1..Len(prevHistory) |->
        IF prevHistory[i].name = updatedAnalysis.name THEN updatedAnalysis
                                                      ELSE prevHistory[i]]

\* the catch clause that also drops the audio of the analysis shown
voiceChangeFailed_DropAudio(state, message) ==
    [state EXCEPT !.error = <<"Failed to generate new narration: ", message>>,
                  !.analysis = IF state.analysis = NoAnalysis THEN NoAnalysis
                               ELSE [state.analysis EXCEPT !.audioData = Null]]

\* the catch clause of handleVoiceChange (geminiService.ts:361-364)
voiceChangeFailed(state, message) ==
    [state EXCEPT !.error = <<"Failed to generate new narration: ", message>>]

\* handleVoiceChange from the answer of narrateText to its end
\* (geminiService.ts:342-367)
handleVoiceChangeSettles(t, answer) ==
    /\ mounted /\ Quiescent /\ variant = "B"
    /\ tasks[t] # NoTask
    /\ tasks[t].kind = "handleVoiceChange"
    /\ answer \in NarrateAnswers(tasks[t].voice)
    /\ tasks' = [tasks EXCEPT ![t] = NoTask]
    /\ isRegeneratingAudio' = FALSE
    /\ IF answer.kind = "rejected"
       THEN /\ appState' = voiceChangeFailed(appState, answer.error)
            /\ UNCHANGED <<history, localStorage>>
       ELSE LET updatedAnalysis == [tasks[t].analysis EXCEPT !.audioData = answer.value]
            IN  /\ appState' = [appState EXCEPT !.analysis = updatedAnalysis]
                /\ history' = replaceAnalysis(history, updatedAnalysis)
                /\ localStorage' = setItem(localStorage, JSONstringify(history'))
    /\ UNCHANGED <<selectedVoice, isHistoryPanelOpen, appKeepR>>
    /\ render

\* handleSelectHistoryItem (geminiService.ts:372-387)
handleSelectHistoryItemB(i) ==
    /\ mounted /\ Quiescent /\ variant = "B"
    /\ isHistoryPanelOpen
    /\ i \in 1..Len(history)
    /\ appState' = [processState |-> "Done", imageFile |-> Null,
                    imageDataUrl |-> DataUrl(history[i].imageMimeType,
                                             history[i].imageBase64),
                    analysis |-> history[i], error |-> NoError]
    /\ isHistoryPanelOpen' = FALSE
    /\ stopNarration
    /\ UNCHANGED <<history, localStorage, tasks, selectedVoice, isRegeneratingAudio,
                   appKeepR0, isPlaying, audioContextRef, audioSourceRef, plays>>
    /\ render

\* handleClearHistory (geminiService.ts:389-396); the panel renders its
\* button while the list is not empty
handleClearHistoryB ==
    /\ mounted /\ Quiescent /\ variant = "B"
    /\ isHistoryPanelOpen
    /\ Len(history) > 0
    /\ history' = << >>
    /\ localStorage' = NoItem
    /\ UNCHANGED <<appState, tasks, selectedVoice, isHistoryPanelOpen,
                   isRegeneratingAudio, appKeepB>>

\* the characters of the strings the application hands to src/utils/audio.ts
CharsOf(str) ==
    CASE str = "AAEAAg==" -> <<"A", "A", "E", "A", "A", "g", "=", "=">>
      [] str = "/38A" -> <<"/", "3", "8", "A">>
      [] str = "photo1" -> <<"/", "9", "j", "/">>
      [] str = "capture" -> <<"/", "9", "j", "/">>
      [] str = "image/jpeg" -> CallMimeType
      [] str = "Eiffel Tower" -> CallName
      [] str = "Colosseum" -> <<"C", "o", "l", "o", "s", "s", "e", "u", "m">>
      [] str = "Big Ben" -> <<"B", "i", "g", " ", "B", "e", "n">>
      [] str = "Not a Landmark" ->
            <<"N", "o", "t", " ", "a", " ", "L", "a", "n", "d", "m", "a", "r", "k">>
      [] str = "" -> << >>

\* handleDownload (geminiService.ts:284-301); the button is rendered with
\* an analysis and disabled while audio is regenerated; the link it clicks
\* is no state of the component
handleDownload ==
    /\ mounted /\ Quiescent /\ variant = "B"
    /\ ResultShown /\ appState.analysis # NoAnalysis
    /\ ~isRegeneratingAudio
    /\ appState.analysis.audioData \notin {Null, Undefined, ""}
    /\ LET blob == createWavBlobFromBase64(CharsOf(appState.analysis.audioData))
       IN  appState' = IF blob.kind = "throw"
                       THEN [appState EXCEPT
                               !.error = <<"Could not prepare the audio for download.">>]
                       ELSE appState
    /\ UNCHANGED <<history, localStorage, tasks, selectedVoice, isHistoryPanelOpen,
                   isRegeneratingAudio, appKeepR>>
    /\ render

\* how navigator.share settles: fulfilled, or rejected with a DOMException
\* of this name
ShareAnswers == {"fulfilled", "AbortError", "NotAllowedError"}

\* the catch clause of handleShare (geminiService.ts:327-332)
shareFailed(state, errorName) ==
    IF errorName # "AbortError"
    THEN [state EXCEPT !.error = <<"Could not share the analysis.">>]
    ELSE state

\* handleShare up to its await (geminiService.ts:303-325); the button is
\* rendered with an analysis where navigator.share exists and disabled
\* while audio is regenerated
handleShare ==
    /\ mounted /\ Quiescent /\ variant = "B"
    /\ ResultShown /\ appState.analysis # NoAnalysis
    /\ ~isRegeneratingAudio
    /\ FreeTasks # { }
    /\ LET analysis  == appState.analysis
           filename  == shareFilename(CharsOf(analysis.name), CharsOf(analysis.imageMimeType))
           imageFile == base64toFile(CharsOf(analysis.imageBase64), filename,
                                     CharsOf(analysis.imageMimeType))
           t         == CHOOSE x \in FreeTasks : \A y \in FreeTasks : x <= y
       IN  IF imageFile.kind = "throw"
           THEN /\ appState' = shareFailed(appState, imageFile.error)
                /\ UNCHANGED tasks
           ELSE /\ tasks' = [tasks EXCEPT ![t] = [kind |-> "handleShare", pc |-> "share"]]
                /\ UNCHANGED appState
    /\ UNCHANGED <<history, localStorage, selectedVoice, isHistoryPanelOpen,
                   isRegeneratingAudio, appKeepR>>
    /\ render

\* handleShare from the answer of navigator.share to its end
\* (geminiService.ts:325-332)
shareSettles(t, answer) ==
    /\ mounted /\ Quiescent /\ variant = "B"
    /\ tasks[t] # NoTask
    /\ tasks[t].kind = "handleShare"
    /\ tasks' = [tasks EXCEPT ![t] = NoTask]
    /\ appState' = IF answer = "fulfilled" THEN appState ELSE shareFailed(appState, answer)
    /\ UNCHANGED <<history, localStorage, selectedVoice, isHistoryPanelOpen,
                   isRegeneratingAudio, appKeepR>>
    /\ render

(***************************************************************************)
(* Playback of the narration in the App of geminiService.ts.               *)
(***************************************************************************)
\* the states a new AudioContext can report when playNarration reads it
NewContextStates == {"running", "suspended"}

\* how audioContext.resume() settles
ResumeAnswers == {"fulfilled", "rejected"}

\* the play button is rendered with the result and enabled
PlayButton ==
    /\ mounted /\ Quiescent /\ variant = "B"
    /\ ResultShown /\ appState.analysis # NoAnalysis
    /\ ~isRegeneratingAudio

\* the lines after the awaits of playNarration (geminiService.ts:244-254)
startSource ==
    /\ sources' = Append(sources, "playing")
    /\ audioSourceRef' = Len(sources) + 1
    /\ isPlaying' = TRUE

\* the catch clause of playNarration (geminiService.ts:255-258)
playFailed(state) ==
    [state EXCEPT !.error = <<"Could not play the audio narration.">>]

\* a playNarration invocation at one of its awaits
Play(pc, audioData) == [pc |-> pc, audioData |-> audioData]

\* plays without its k-th entry
WithoutPlay(k) == SubSeq(plays, 1, k - 1) \o SubSeq(plays, k + 1, Len(plays))

\* playNarration up to its first await (geminiService.ts:230-243); the
\* button calls it while isPlaying is false
playNarration(newState) ==
    /\ PlayButton
    /\ ~isPlaying
    /\ appState.analysis.audioData \notin {Null, Undefined, ""}
    /\ Len(sources) + Len(plays) < MaxSources
    /\ IF audioContextRef = "none" THEN newState \in NewContextStates
                                    ELSE newState = audioContextRef
    /\ audioContextRef' = newState
    /\ plays' = Append(plays,
                       Play(IF newState = "suspended" THEN "resume" ELSE "decodeAudioData",
                            appState.analysis.audioData))
    /\ UNCHANGED <<sources, audioSourceRef, isPlaying>>
    /\ UNCHANGED <<appVars, audioVars, callVars, cameraVars, videoVars>>

\* what the steps of a playNarration invocation leave alone
playRest == <<variant, mounted, history, localStorage, effects, tasks,
              selectedVoice, isHistoryPanelOpen, isRegeneratingAudio,
              audioVars, callVars, cameraVars, videoVars>>

\* playNarration from the settling of audioContext.resume() to its next
\* await (geminiService.ts:241-243)
resumeSettles(k, answer) ==
    /\ variant = "B" /\ Quiescent
    /\ k \in 1..Len(plays)
    /\ plays[k].pc = "resume"
    /\ IF answer = "fulfilled"
       THEN /\ audioContextRef' = "running"
            /\ plays' = [plays EXCEPT ![k].pc = "decodeAudioData"]
            /\ UNCHANGED appState
       ELSE /\ appState' = playFailed(appState)
            /\ plays' = WithoutPlay(k)
            /\ UNCHANGED audioContextRef
    /\ UNCHANGED <<sources, audioSourceRef, isPlaying, playRest>>

\* playNarration from the await of decodeAudioData to its end
\* (geminiService.ts:243-259); the context was made with sampleRate 24000
decodeAudioDataSettles(k) ==
    /\ variant = "B" /\ effects = << >>
    /\ k \in 1..Len(plays)
    /\ plays[k].pc = "decodeAudioData"
    /\ plays' = WithoutPlay(k)
    /\ LET audioBuffer == decodeAudioData(CharsOf(plays[k].audioData),
                                          [sampleRate |-> 24000])
       IN  IF audioBuffer.kind = "rejected"
           THEN /\ appState' = playFailed(appState)
                /\ UNCHANGED <<sources, audioSourceRef, isPlaying>>
           ELSE /\ startSource
                /\ UNCHANGED appState
    /\ UNCHANGED <<audioContextRef, playRest>>

\* the play button while isPlaying is true: onStop
onStop ==
    /\ PlayButton
    /\ isPlaying
    /\ stopNarration
    /\ UNCHANGED <<appVars, audioVars, callVars, cameraVars, videoVars,
                   isPlaying, audioContextRef, audioSourceRef, plays>>

\* the ended event of a source node, after stop() or at the end of its
\* buffer, and its onended handler (geminiService.ts:248-251)
sourceEnded(i) ==
    /\ NoJob
    /\ i \in 1..Len(sources)
    /\ sources[i] \in {"playing", "stopped"}
    /\ sources' = [sources EXCEPT ![i] = "ended"]
    /\ isPlaying' = FALSE
    /\ audioSourceRef' = 0
    /\ UNCHANGED <<appVars, audioVars, callVars, cameraVars, videoVars,
                   audioContextRef, plays>>

\* the analyses a finished analysis can have put on the screen
ShownAnalyses ==
    { [name |-> n, history |-> "A brief history.", sources |-> << >>,
       audioData |-> AudioOf(v), imageBase64 |-> file,
       imageMimeType |-> MimeTypeOf(file)] :
         n \in Names, v \in Voices, file \in Photos }

\* the component shows a finished analysis and nothing has been played
InitPlay ==
    /\ variant = "B"
    /\ mounted = TRUE
    /\ \E item \in ShownAnalyses :
          /\ appState = [processState |-> "Done", imageFile |-> item.imageBase64,
                         imageDataUrl |-> ObjectUrl(item.imageBase64),
                         analysis |-> item, error |-> NoError]
          /\ history = <<item>>
          /\ localStorage = setItem(NoItem, JSONstringify(<<item>>))
    /\ effects = << >>
    /\ tasks = [t \in 1..MaxTasks |-> NoTask]
    /\ selectedVoice \in Voices
    /\ isHistoryPanelOpen = FALSE
    /\ isRegeneratingAudio = FALSE
    /\ base64 = << >>
    /\ call = "none"
    /\ args = << >>
    /\ outcome = [kind |-> "none"]
    /\ NoCalls
    /\ NoSide

(***************************************************************************)
(* CameraCapture (src/unnamed/part_003) inside ImageUploader.               *)
(***************************************************************************)
\* how navigator.mediaDevices.getUserMedia settles
MediaAnswers == {"stream", "NotAllowedError", "NotFoundError"}

\* cleanupCamera (part_003:15-20) of instance c: the streams after it
stoppedTracks(c) ==
    IF cameras[c].streamRef # 0
    THEN [streams EXCEPT ![cameras[c].streamRef].state = "stopped"]
    ELSE streams

\* the camera button of ImageUploader (ImageUploader.tsx:86) and the mount
\* of CameraCapture: the effect calls openCamera up to its await
\* (part_003:22-27,48)
openCamera ==
    /\ mounted /\ Quiescent
    /\ UploaderShown
    /\ Mounted = { }
    /\ Len(cameras) < MaxCameras
    /\ cameras' = Append(cameras, [mounted |-> TRUE, streamRef |-> 0,
                                   request |-> "pending", error |-> FALSE,
                                   uploaderGone |-> FALSE, pageClosed |-> FALSE])
    /\ UNCHANGED <<streams, blobs, appVars, audioVars, callVars, playVars, videoVars>>

\* openCamera from the settling of getUserMedia to its end (part_003:25-45)
getUserMediaSettles(c, answer) ==
    /\ c \in 1..Len(cameras)
    /\ cameras[c].request = "pending"
    /\ ~cameras[c].pageClosed
    /\ IF answer = "stream"
       THEN /\ streams' = Append(streams, [owner |-> c, state |-> "live"])
            /\ cameras' = [cameras EXCEPT ![c].request = "settled",
                                          ![c].streamRef = Len(streams) + 1]
       ELSE /\ cameras' = [cameras EXCEPT ![c].request = "settled",
                                          ![c].error = cameras[c].mounted]
            /\ UNCHANGED streams
    /\ UNCHANGED <<blobs, appVars, audioVars, callVars, playVars, videoVars>>

\* handleCapture up to canvas.toBlob (part_003:55-73); the button is
\* rendered without an error; the canvas has a picture only when the video
\* shows a stream
handleCapture(c, hasBlob) ==
    /\ c \in Mounted
    /\ ~cameras[c].error
    /\ Len(blobs) < MaxBlobs
    /\ hasBlob => cameras[c].streamRef # 0
    /\ blobs' = Append(blobs, [camera |-> c, blob |-> hasBlob])
    /\ UNCHANGED <<cameras, streams, appVars, audioVars, callVars, playVars, videoVars>>

\* the callback of canvas.toBlob (part_003:67-73): onCapture is handleCapture
\* of ImageUploader.tsx:46-49, which hands the file to handleImageChange of
\* the App and closes the camera of its uploader
toBlobCallback ==
    /\ mounted /\ Quiescent
    /\ blobs # << >>
    /\ blobs' = Tail(blobs)
    /\ IF Head(blobs).blob
       THEN LET c      == Head(blobs).camera
                closed == IF cameras[c].uploaderGone THEN { } ELSE Mounted
            IN  IF variant = "A"
                THEN /\ readAsDataURL(CapturedFile)
                     /\ UNCHANGED appState
                     /\ streams' = stoppedAll(streams, closed \cup {c})
                     /\ cameras' = [x \in 1..Len(cameras) |->
                                       IF x \in closed THEN unmounted(cameras[x])
                                       ELSE IF x = c THEN cleanupCamera(cameras[x])
                                       ELSE cameras[x]]
                ELSE /\ appState' = [processState |-> "ImageUploaded",
                                     imageFile |-> CapturedFile,
                                     imageDataUrl |-> ObjectUrl(CapturedFile),
                                     analysis |-> NoAnalysis, error |-> NoError]
                     /\ UNCHANGED tasks
                     /\ streams' = stoppedAll(streams, Mounted \cup {c})
                     /\ cameras' = uploaderUnmounted(
                                       [cameras EXCEPT ![c] = cleanupCamera(cameras[c])])
       ELSE UNCHANGED <<cameras, streams, appState, tasks>>
    /\ UNCHANGED <<variant, mounted, history, localStorage, effects, selectedVoice,
                   isHistoryPanelOpen, isRegeneratingAudio,
                   audioVars, callVars, playVars, videoVars>>

\* handleClose (part_003:78-81) and the unmount that onClose brings
handleClose(c) ==
    /\ c \in Mounted
    /\ streams' = stoppedTracks(c)
    /\ cameras' = [cameras EXCEPT ![c] = unmounted(cameras[c])]
    /\ UNCHANGED <<blobs, appVars, audioVars, callVars, playVars, videoVars>>

\* the App is mounted, its effects have run and the uploader is on the screen
InitCamera ==
    /\ NoCamera
    /\ NoPlayback
    /\ NoVideo
    /\ variant \in {"A", "B"}
    /\ mounted = TRUE
    /\ appState = initialState
    /\ history = << >>
    /\ localStorage = IF variant = "A" THEN setItem(NoItem, JSONstringify(<< >>)) ELSE NoItem
    /\ effects = << >>
    /\ tasks = [t \in 1..MaxTasks |-> NoTask]
    /\ selectedVoice = "Kore"
    /\ isHistoryPanelOpen = FALSE
    /\ isRegeneratingAudio = FALSE
    /\ NoCalls
    /\ base64 = << >>
    /\ call = "none"
    /\ args = << >>
    /\ outcome = [kind |-> "none"]

(***************************************************************************)
(* createVideoFromLandmark (src/unnamed/part_001).                         *)
(***************************************************************************)
\* the scene the image model draws for a prompt of imagePrompts
SceneOf(i) == IF i = 1 THEN "sunny day" ELSE "at night"

\* how ai.models.generateContent answers the prompt: with an image part,
\* with a part that has no inlineData, or with an error
ImageAnswers(i) ==
    { Fulfilled(SceneOf(i)), Fulfilled(Undefined), Rejected("Network error") }

AllImageAnswers == ImageAnswers(1) \cup ImageAnswers(2)

\* generateReferenceImage (part_001:98-117): the image, or null when the
\* answer has no image or the call threw
generateReferenceImage(answer) ==
    IF answer.kind = "fulfilled" /\ answer.value # Undefined THEN answer.value
                                                               ELSE Null

\* the payload with an element for every generated image, null or not
referenceImagesPayload_PushAll(initialImage, images) ==
    <<initialImage>> \o images

\* referenceImagesPayload (part_001:136-150)
referenceImagesPayload(initialImage, images) ==
    <<initialImage>> \o SelectSeq(images, LAMBDA img : img # Null)

NoMetadata == [present |-> FALSE]

\* values of metadata.progressPercentage
ProgressValues == {0, 40, 100, 150}

Metadata ==
    { NoMetadata } \cup { [present |-> TRUE, progressPercentage |-> n] : n \in ProgressValues }

\* the operation objects the video service may hand out; uri is
\* response.generatedVideos[0].video.uri
Operations ==
    { [done |-> FALSE, metadata |-> m, uri |-> Undefined] : m \in Metadata }
    \cup { [done |-> TRUE, metadata |-> m, uri |-> u] :
              m \in Metadata, u \in {Undefined, "", "https://video/1"} }

OperationAnswers == { Fulfilled(o) : o \in Operations } \cup { Rejected("Network error") }

\* a message handed to updateProgress; n is the number it shows, 0 if none
Message(text, n) == [text |-> text, n |-> n]

Min(a, b) == IF a < b THEN a ELSE b

\* the percentage of the message without the limit
reportedPercent_NoLimit(op, count) ==
    IF op.metadata.present /\ op.metadata.progressPercentage # 0
    THEN op.metadata.progressPercentage
    ELSE count * 5

\* Math.min(operation.metadata?.progressPercentage || (pollCount * 5), 99)
\* (part_001:175-176)
reportedPercent(op, count) ==
    Min(IF op.metadata.present /\ op.metadata.progressPercentage # 0
        THEN op.metadata.progressPercentage
        ELSE count * 5, 99)

\* the end of createVideoFromLandmark once the loop is left (part_001:179-184)
videoOutcome(op) ==
    IF op.uri = Undefined \/ op.uri = ""
    THEN [kind |-> "throw",
          error |-> "Video generation completed, but no download link was provided."]
    ELSE [kind |-> "return", value |-> op.uri]

\* the loop test on the operation just observed (part_001:170): a done
\* operation ends the function (part_001:179-184), another one begins a
\* turn of the loop with pollCount++ and the 10 s timer (part_001:171-172)
afterObservation(op) ==
    IF op.done
    THEN /\ videoPc' = "done"
         /\ videoResult' = videoOutcome(op)
         /\ UNCHANGED pollCount
    ELSE /\ videoPc' = "setTimeout"
         /\ pollCount' = pollCount + 1
         /\ UNCHANGED videoResult

videoRest == <<appVars, audioVars, callVars, playVars, cameraVars>>

\* createVideoFromLandmark up to Promise.all (part_001:120-134)
createVideoFromLandmark(landmarkName, initialImage) ==
    /\ videoPc = "none"
    /\ videoArgs' = [landmarkName |-> landmarkName, initialImage |-> initialImage]
    /\ progressMessage' = Message("Generating additional scenes...", 0)
    /\ generatedImages' = <<"pending", "pending">>
    /\ videoPc' = "generateReferenceImage"
    /\ UNCHANGED <<referenceImages, operation, pollCount, videoResult, videoRest>>

\* one generateReferenceImage call settles; when both have, Promise.all
\* resolves and the payload is built and sent (part_001:132-156)
generateReferenceImageSettles(i, answer) ==
    /\ videoPc = "generateReferenceImage"
    /\ i \in 1..2
    /\ generatedImages[i] = "pending"
    /\ answer \in ImageAnswers(i)
    /\ generatedImages' = [generatedImages EXCEPT ![i] = generateReferenceImage(answer)]
    /\ IF \A j \in 1..2 : generatedImages'[j] # "pending"
       THEN /\ referenceImages' =
                   referenceImagesPayload(videoArgs.initialImage, generatedImages')
            /\ progressMessage' =
                   Message("Composing video with ${n} scenes...", Len(referenceImages'))
            /\ videoPc' = "generateVideos"
       ELSE UNCHANGED <<referenceImages, progressMessage, videoPc>>
    /\ UNCHANGED <<videoArgs, operation, pollCount, videoResult, videoRest>>

\* generateVideos settles: the message, pollCount = 0 and the first loop
\* test (part_001:156-172)
generateVideosSettles(answer) ==
    /\ videoPc = "generateVideos"
    /\ IF answer.kind = "rejected"
       THEN /\ videoPc' = "done"
            /\ videoResult' = [kind |-> "throw", error |-> answer.error]
            /\ UNCHANGED <<operation, progressMessage, pollCount>>
       ELSE /\ operation' = answer.value
            /\ progressMessage' =
                   Message("Video generation in progress... This may take a few minutes.", 0)
            /\ afterObservation(answer.value)
    /\ UNCHANGED <<videoArgs, generatedImages, referenceImages, videoRest>>

\* the 10 s timer fires and getVideosOperation is called with the operation
\* last observed (part_001:172-173)
setTimeoutFires ==
    /\ videoPc = "setTimeout"
    /\ videoPc' = "getVideosOperation"
    /\ UNCHANGED <<videoArgs, generatedImages, referenceImages, operation, pollCount,
                   progressMessage, videoResult, videoRest>>

\* getVideosOperation settles: the operation is replaced, the progress
\* message is sent and the loop test is made again (part_001:173-177,
\* 170-172)
getVideosOperationSettles(answer) ==
    /\ videoPc = "getVideosOperation"
    /\ (answer.kind = "fulfilled" /\ ~answer.value.done) => pollCount < MaxPolls
    /\ IF answer.kind = "rejected"
       THEN /\ videoPc' = "done"
            /\ videoResult' = [kind |-> "throw", error |-> answer.error]
            /\ UNCHANGED <<operation, progressMessage, pollCount>>
       ELSE /\ operation' = answer.value
            /\ progressMessage' =
                   Message("Rendering video... ${n}% complete. This may take a few minutes.",
                           reportedPercent(answer.value, pollCount))
            /\ afterObservation(answer.value)
    /\ UNCHANGED <<videoArgs, generatedImages, referenceImages, videoRest>>

InitVideo ==
    /\ NoVideo
    /\ NoPlayback
    /\ NoCamera
    /\ NoApp
    /\ NoCalls
    /\ base64 = << >>
    /\ call = "none"
    /\ args = << >>
    /\ outcome = [kind |-> "none"]

NextVideo ==
    \/ \E n \in Names : \E img \in Photos : createVideoFromLandmark(n, img)
    \/ \E i \in 1..2 : \E answer \in AllImageAnswers : generateReferenceImageSettles(i, answer)
    \/ \E answer \in OperationAnswers : generateVideosSettles(answer)
    \/ setTimeoutFires
    \/ \E answer \in OperationAnswers : getVideosOperationSettles(answer)

SpecVideo == InitVideo /\ [][NextVideo]_vars

\* the 10 s timer of every turn of the loop fires
SpecVideoFair == SpecVideo /\ WF_vars(setTimeoutFires)

InitApp ==
    /\ variant \in {"A", "B"}
    /\ mounted = FALSE
    /\ appState = initialState
    /\ history = << >>
    /\ localStorage = NoItem
    /\ effects = << >>
    /\ tasks = [t \in 1..MaxTasks |-> NoTask]
    /\ selectedVoice = "Kore"
    /\ isHistoryPanelOpen = FALSE
    /\ isRegeneratingAudio = FALSE
    /\ base64 = << >>
    /\ call = "none"
    /\ args = << >>
    /\ outcome = [kind |-> "none"]
    /\ NoCalls
    /\ NoSide

AllNarrateAnswers == UNION { NarrateAnswers(v) : v \in Voices }

NextApp ==
    \/ Mount
    \/ RunEffect
    \/ Reload
    \/ openHistoryPanel
    \/ closeHistoryPanel
    \/ \E file \in Photos : handleImageChange(file)
    \/ \E t \in 1..MaxTasks : \E event \in ReaderEvents : readerOnload(t, event)
    \/ \E v \in Voices : setSelectedVoice(v)
    \/ startAnalysis
    \/ \E t \in 1..MaxTasks : \E answer \in IdentifyAnswers : identifyLandmarkSettles(t, answer)
    \/ \E t \in 1..MaxTasks : \E answer \in HistoryAnswers : fetchLandmarkHistorySettles(t, answer)
    \/ \E t \in 1..MaxTasks : \E answer \in AllNarrateAnswers : narrateTextSettles(t, answer)
    \/ handleReset
    \/ \E i \in 1..Len(history) : handleSelectHistoryItem(i)
    \/ handleClearHistory
    \/ \E file \in Photos : handleImageChangeB(file)
    \/ handleAnalyzeClick
    \/ \E t \in 1..MaxTasks : \E answer \in UNION { FileAnswers(f) : f \in Photos } :
          fileToBase64Settles(t, answer)
    \/ \E t \in 1..MaxTasks : \E answer \in IdentifyAnswersB : identifyLandmarkSettlesB(t, answer)
    \/ \E t \in 1..MaxTasks : \E answer \in HistoryAnswers : fetchLandmarkHistorySettlesB(t, answer)
    \/ \E t \in 1..MaxTasks : \E answer \in AllNarrateAnswers : narrateTextSettlesB(t, answer)
    \/ handleDownload
    \/ handleShare
    \/ \E t \in 1..MaxTasks : \E answer \in ShareAnswers : shareSettles(t, answer)
    \/ handleResetB
    \/ \E v \in Voices : handleVoiceChange(v)
    \/ \E t \in 1..MaxTasks : \E answer \in AllNarrateAnswers : handleVoiceChangeSettles(t, answer)
    \/ \E i \in 1..Len(history) : handleSelectHistoryItemB(i)
    \/ handleClearHistoryB

SpecApp == InitApp /\ [][NextApp]_vars

\* the history of both components with a third landmark, "Big Ben", among
\* the answers of identifyLandmark: the handlers that read or write the
\* history, the voice selection and the page closed and opened again
NextHistory ==
    \/ Mount
    \/ RunEffect
    \/ Reload
    \/ openHistoryPanel
    \/ closeHistoryPanel
    \/ \E file \in Photos : handleImageChange(file)
    \/ \E t \in 1..MaxTasks : \E event \in ReaderEvents : readerOnload(t, event)
    \/ \E v \in Voices : setSelectedVoice(v)
    \/ startAnalysis
    \/ \E t \in 1..MaxTasks :
          \E answer \in IdentifyAnswers \cup
                { Fulfilled([isLandmark |-> TRUE, name |-> "Big Ben", description |-> Null]) } :
              identifyLandmarkSettles(t, answer)
    \/ \E t \in 1..MaxTasks : \E answer \in HistoryAnswers : fetchLandmarkHistorySettles(t, answer)
    \/ \E t \in 1..MaxTasks : \E answer \in AllNarrateAnswers : narrateTextSettles(t, answer)
    \/ handleReset
    \/ \E i \in 1..Len(history) : handleSelectHistoryItem(i)
    \/ handleClearHistory
    \/ \E file \in Photos : handleImageChangeB(file)
    \/ handleAnalyzeClick
    \/ \E t \in 1..MaxTasks : \E answer \in UNION { FileAnswers(f) : f \in Photos } :
          fileToBase64Settles(t, answer)
    \/ \E t \in 1..MaxTasks : \E answer \in IdentifyAnswersB \cup { Fulfilled("Big Ben") } :
          identifyLandmarkSettlesB(t, answer)
    \/ \E t \in 1..MaxTasks : \E answer \in HistoryAnswers : fetchLandmarkHistorySettlesB(t, answer)
    \/ \E t \in 1..MaxTasks : \E answer \in AllNarrateAnswers : narrateTextSettlesB(t, answer)
    \/ handleResetB
    \/ \E v \in Voices : handleVoiceChange(v)
    \/ \E t \in 1..MaxTasks : \E answer \in AllNarrateAnswers : handleVoiceChangeSettles(t, answer)
    \/ \E i \in 1..Len(history) : handleSelectHistoryItemB(i)
    \/ handleClearHistoryB

SpecHistory == InitApp /\ [][NextHistory]_vars

\* playback in the App of geminiService.ts: the narration, the handlers that
\* stop it, and the page closed and opened again
NextPlay ==
    \/ \E newState \in NewContextStates : playNarration(newState)
    \/ \E k \in 1..MaxSources : \E answer \in ResumeAnswers : resumeSettles(k, answer)
    \/ \E k \in 1..MaxSources : decodeAudioDataSettles(k)
    \/ onStop
    \/ \E i \in 1..MaxSources : sourceEnded(i)
    \/ handleResetB
    \/ openHistoryPanel
    \/ \E i \in 1..Len(history) : handleSelectHistoryItemB(i)
    \/ \E v \in Voices : handleVoiceChange(v)
    \/ \E t \in 1..MaxTasks : \E answer \in AllNarrateAnswers : handleVoiceChangeSettles(t, answer)
    \/ Reload
    \/ Mount
    \/ RunEffect

SpecPlay == InitPlay /\ [][NextPlay]_vars

\* the camera inside either App: the uploads, the analyses and the history
\* selections that take the uploader off the screen, and the page closed
\* and opened again
NextCamera ==
    \/ openCamera
    \/ \E c \in 1..MaxCameras : \E answer \in MediaAnswers : getUserMediaSettles(c, answer)
    \/ \E c \in 1..MaxCameras : \E hasBlob \in BOOLEAN : handleCapture(c, hasBlob)
    \/ toBlobCallback
    \/ \E c \in 1..MaxCameras : handleClose(c)
    \/ \E file \in Photos : handleImageChange(file)
    \/ \E t \in 1..MaxTasks : \E event \in ReaderEvents : readerOnload(t, event)
    \/ startAnalysis
    \/ \E t \in 1..MaxTasks : \E answer \in IdentifyAnswers : identifyLandmarkSettles(t, answer)
    \/ \E t \in 1..MaxTasks : \E answer \in HistoryAnswers : fetchLandmarkHistorySettles(t, answer)
    \/ \E t \in 1..MaxTasks : \E answer \in AllNarrateAnswers : narrateTextSettles(t, answer)
    \/ handleReset
    \/ \E i \in 1..Len(history) : handleSelectHistoryItem(i)
    \/ \E file \in Photos : handleImageChangeB(file)
    \/ handleAnalyzeClick
    \/ \E t \in 1..MaxTasks :
          \E answer \in UNION { FileAnswers(f) : f \in Photos \cup {CapturedFile} } :
             fileToBase64Settles(t, answer)
    \/ \E t \in 1..MaxTasks : \E answer \in IdentifyAnswersB : identifyLandmarkSettlesB(t, answer)
    \/ \E t \in 1..MaxTasks : \E answer \in HistoryAnswers : fetchLandmarkHistorySettlesB(t, answer)
    \/ \E t \in 1..MaxTasks : \E answer \in AllNarrateAnswers : narrateTextSettlesB(t, answer)
    \/ handleResetB
    \/ \E i \in 1..Len(history) : handleSelectHistoryItemB(i)
    \/ openHistoryPanel
    \/ Reload
    \/ Mount
    \/ RunEffect

SpecCamera == InitCamera /\ [][NextCamera]_vars

(***************************************************************************)
(* Properties.                                                             *)
(***************************************************************************)
\* the bytes the platform decodes the input to; defined when DecodeOk
Decoded == atob(base64).value

DecodeOk == atob(base64).kind = "return"

\* the unsigned little-endian integers at a byte offset
LE16(bytes, offset) == bytes[offset + 1] + 256 * bytes[offset + 2]

LE32(bytes, offset) ==
    bytes[offset + 1] + 256 * bytes[offset + 2]
        + 65536 * bytes[offset + 3] + 16777216 * bytes[offset + 4]

\* the signed 16-bit value of a low and a high byte
S16LE(lo, hi) == IF hi >= 128 THEN lo + 256 * hi - 65536 ELSE lo + 256 * hi

\* a string the base64 primitive accepts: ASCII whitespace apart, base64
\* digits followed by no padding, or by one or two "=" that bring the length
\* to a multiple of 4, and never 1 digit more than a multiple of 4
WellFormedBase64(str) ==
    LET t == SelectSeq(str, NotWhitespace)
    IN  \E k \in 0..2 :
          /\ Len(t) >= k
          /\ k > 0 => Len(t) % 4 = 0
          /\ \A i \in 1..Len(t) : IF i > Len(t) - k THEN t[i] = "=" ELSE t[i] \in B64Chars
          /\ (Len(t) - k) % 4 # 1

\* C1: the container createWavBlobFromBase64 returns has exactly 44 + len(B)
\* bytes, and its bytes from offset 44 on are the decoded bytes B, unchanged
\* and in order.
Thm_C1_WavDataVerbatim ==
    (call = "createWavBlobFromBase64" /\ DecodeOk) =>
        /\ outcome.kind = "return"
        /\ outcome.value.size = 44 + Len(Decoded)
        /\ Len(outcome.value.bytes) = 44 + Len(Decoded)
        /\ \A i \in 1..Len(Decoded) : outcome.value.bytes[44 + i] = Decoded[i]

\* the base64 of the bytes 00 01 00 02 was encoded to a 48-byte container
Wit_C1_FourBytes ==
    /\ call = "createWavBlobFromBase64"
    /\ base64 = <<"A", "A", "E", "A", "A", "g", "=", "=">>
    /\ outcome.kind = "return"
    /\ outcome.value.size = 48
    /\ SubSeq(outcome.value.bytes, 45, 48) = <<0, 1, 0, 2>>

\* C2: in every container the little-endian ChunkSize at offset 4 is
\* 36 + dataSize and the little-endian Subchunk2Size at offset 40 is dataSize,
\* the number of decoded bytes; ChunkSize is the container length minus 8.
Thm_C2_SizeFields ==
    (call = "createWavBlobFromBase64" /\ outcome.kind = "return") =>
        /\ LE32(outcome.value.bytes, 4) = 36 + Len(Decoded)
        /\ LE32(outcome.value.bytes, 40) = Len(Decoded)
        /\ LE32(outcome.value.bytes, 4) = Len(outcome.value.bytes) - 8

\* a container of five data bytes declares ChunkSize 41 and Subchunk2Size 5
Wit_C2_FiveBytes ==
    /\ call = "createWavBlobFromBase64"
    /\ outcome.kind = "return"
    /\ Len(outcome.value.bytes) = 49
    /\ LE32(outcome.value.bytes, 4) = 41
    /\ LE32(outcome.value.bytes, 40) = 5

\* C3: the header bytes other than offsets 4-7 and 40-43 are the same in
\* every container: "RIFF", "WAVE", "fmt ", "data" at 0, 8, 12, 36 and
\* Subchunk1Size 16, AudioFormat 1, NumChannels 1, SampleRate 24000,
\* ByteRate 48000, BlockAlign 2, BitsPerSample 16 in little-endian.
Thm_C3_FixedHeader ==
    (call = "createWavBlobFromBase64" /\ outcome.kind = "return") =>
        LET b == outcome.value.bytes
        IN  /\ SubSeq(b, 1, 4) = <<82, 73, 70, 70>>
            /\ SubSeq(b, 9, 12) = <<87, 65, 86, 69>>
            /\ SubSeq(b, 13, 16) = <<102, 109, 116, 32>>
            /\ SubSeq(b, 37, 40) = <<100, 97, 116, 97>>
            /\ LE32(b, 16) = 16
            /\ LE16(b, 20) = 1
            /\ LE16(b, 22) = 1
            /\ LE32(b, 24) = 24000
            /\ LE32(b, 28) = 48000
            /\ LE16(b, 32) = 2
            /\ LE16(b, 34) = 16

\* two containers of different data lengths exist; this one has data
Wit_C3_HeaderWithData ==
    /\ call = "createWavBlobFromBase64"
    /\ outcome.kind = "return"
    /\ Len(outcome.value.bytes) = 47
    /\ SubSeq(outcome.value.bytes, 25, 32) = <<192, 93, 0, 0, 128, 187, 0, 0>>

\* C4: for a payload of even byte length N, frame i (0 <= i < N/2) of the
\* returned buffer is s/32768 with s the signed 16-bit little-endian value of
\* bytes 2i and 2i+1, in index order; so each frame lies in
\* [-1, 32767/32768], bytes 00 80 give -1, FF 7F give 32767/32768 and 00 00
\* give 0.
Thm_C4_SampleNormalization ==
    (call = "decodeAudioData" /\ DecodeOk /\ Len(Decoded) % 2 = 0) =>
        \A i \in 1..(Len(Decoded) \div 2) :
            LET lo == Decoded[2 * i - 1]
                hi == Decoded[2 * i]
            IN  /\ outcome.kind = "fulfilled"
                /\ FracEq(outcome.value.channelData[i], Frac(S16LE(lo, hi), 32768))
                /\ FracEq(outcome.value.channelData[i], Frac(-1, 1))
                       \/ outcome.value.channelData[i].num * 1 > -1 * outcome.value.channelData[i].den
                /\ outcome.value.channelData[i].num * 32768
                       <= 32767 * outcome.value.channelData[i].den
                /\ (lo = 0 /\ hi = 128) => FracEq(outcome.value.channelData[i], Frac(-1, 1))
                /\ (lo = 255 /\ hi = 127) => FracEq(outcome.value.channelData[i], Frac(32767, 32768))
                /\ (lo = 0 /\ hi = 0) => FracEq(outcome.value.channelData[i], Frac(0, 1))

\* the bytes FF 7F 00 80 were decoded to the frames 32767/32768 and -1
Wit_C4_ExtremeFrames ==
    /\ call = "decodeAudioData"
    /\ DecodeOk
    /\ Decoded = <<255, 127, 0, 128>>
    /\ outcome.kind = "fulfilled"
    /\ outcome.value.length = 2
    /\ FracEq(outcome.value.channelData[1], Frac(32767, 32768))
    /\ FracEq(outcome.value.channelData[2], Frac(-1, 1))

\* C5: for every payload whose decoded byte length N is even,
\* decodeAudioData returns a buffer of exactly N/2 frames.
Cex_C5_FrameCount ==
    (call = "decodeAudioData" /\ DecodeOk /\ Len(Decoded) % 2 = 0) =>
        /\ outcome.kind = "fulfilled"
        /\ outcome.value.length = Len(Decoded) \div 2
        /\ Len(outcome.value.channelData) = Len(Decoded) \div 2

\* C6 as stated: for a payload of odd byte length N, decodeAudioData
\* completes without error and returns floor(N/2) frames built from the
\* first N-1 bytes.
Cex_C6_OddTruncated ==
    (call = "decodeAudioData" /\ DecodeOk /\ Len(Decoded) % 2 = 1) =>
        /\ outcome.kind = "fulfilled"
        /\ outcome.value.length = Len(Decoded) \div 2
        /\ \A i \in 1..(Len(Decoded) \div 2) :
             FracEq(outcome.value.channelData[i],
                    Frac(S16LE(Decoded[2 * i - 1], Decoded[2 * i]), 32768))

\* C6 as amended: for a payload of odd byte length N, decodeAudioData
\* returns no buffer: the 16-bit view over N bytes is a RangeError and the
\* promise is rejected with it.
Thm_C6_OddRejected ==
    (call = "decodeAudioData" /\ DecodeOk /\ Len(Decoded) % 2 = 1) =>
        /\ outcome.kind = "rejected"
        /\ outcome.error = "RangeError"

\* a payload of three bytes was rejected
Wit_C6_ThreeBytes ==
    /\ call = "decodeAudioData"
    /\ DecodeOk
    /\ Len(Decoded) = 3
    /\ outcome.kind = "rejected"
    /\ outcome.error = "RangeError"

\* C7: on a string that is not valid base64, decodeBase64,
\* createWavBlobFromBase64 and base64toFile throw and decodeAudioData's
\* promise is rejected; none returns a buffer, blob or file.
Thm_C7_InvalidInputFails ==
    (call # "none" /\ ~WellFormedBase64(base64)) =>
        /\ call \in {"decodeBase64", "createWavBlobFromBase64", "base64toFile"}
              => outcome.kind = "throw"
        /\ call = "decodeAudioData" => outcome.kind = "rejected"
        /\ "value" \notin DOMAIN outcome

\* decodeAudioData was called on a string holding "!" after valid digits
Wit_C7_BangRejected ==
    /\ call = "decodeAudioData"
    /\ Len(base64) = 4
    /\ base64[1] = "A" /\ base64[2] = "A" /\ base64[3] = "A" /\ base64[4] = "!"
    /\ outcome.kind = "rejected"

\* C8: encoding the empty string succeeds and gives exactly 44 bytes with
\* ChunkSize 36 and Subchunk2Size 0, no data byte after the header.
Thm_C8_EmptyWav ==
    (call = "createWavBlobFromBase64" /\ base64 = << >>) =>
        /\ outcome.kind = "return"
        /\ outcome.value.size = 44
        /\ Len(outcome.value.bytes) = 44
        /\ LE32(outcome.value.bytes, 4) = 36
        /\ LE32(outcome.value.bytes, 40) = 0

\* the empty string was encoded
Wit_C8_EmptyEncoded ==
    /\ call = "createWavBlobFromBase64"
    /\ base64 = << >>
    /\ outcome.kind = "return"
    /\ outcome.value.size = 44

\* C9: decoding the empty string with decodeAudioData gives a buffer of zero
\* frames and no error.
Cex_C9_EmptyDecoded ==
    (call = "decodeAudioData" /\ base64 = << >>) =>
        /\ outcome.kind = "fulfilled"
        /\ outcome.value.length = 0

\* a MIME type of characters U+0020..U+007E only
PrintableAscii(type) ==
    \A i \in 1..Len(type) : charCode(type[i]) >= 32 /\ charCode(type[i]) <= 126

\* a valid MIME type: a type and a subtype, both non-empty, of printable
\* characters other than the space, with one "/" between them; letters of
\* either case
ValidMimeType(type) ==
    /\ PrintableAscii(type)
    /\ \A i \in 1..Len(type) : type[i] # " "
    /\ \E k \in 2..(Len(type) - 1) :
         /\ type[k] = "/"
         /\ \A i \in 1..Len(type) : type[i] = "/" => i = k

\* C10 as stated: for every valid input, name and MIME type the file
\* base64toFile returns holds the decoded bytes, has the given name and has
\* exactly the given MIME type.
Cex_C10_FileExactType ==
    (call = "base64toFile" /\ DecodeOk /\ ValidMimeType(args.mimeType)) =>
        /\ outcome.kind = "return"
        /\ outcome.value.bytes = Decoded
        /\ outcome.value.name = args.filename
        /\ outcome.value.type = args.mimeType

\* a string without the letters A-Z
NoUpperCase(type) ==
    \A i \in 1..Len(type) : ~(charCode(type[i]) >= 65 /\ charCode(type[i]) <= 90)

\* the letters A-Z of a string replaced by a-z
AsciiLower(type) ==
    [i \in 1..Len(type) |->
        IF charCode(type[i]) >= 65 /\ charCode(type[i]) <= 90
        THEN CHOOSE c \in B64Chars : charCode(c) = charCode(type[i]) + 32
        ELSE type[i]]

\* C10 as amended: the file holds the decoded bytes and has the given name;
\* for a MIME type of printable ASCII characters its type is the given one
\* in ASCII lower case, so exactly the given one when that has no upper-case
\* letter.
Thm_C10_FileLowerCaseType ==
    (call = "base64toFile" /\ DecodeOk) =>
        /\ outcome.kind = "return"
        /\ outcome.value.bytes = Decoded
        /\ outcome.value.size = Len(Decoded)
        /\ outcome.value.name = args.filename
        /\ PrintableAscii(args.mimeType) =>
              outcome.value.type = AsciiLower(args.mimeType)
        /\ (PrintableAscii(args.mimeType) /\ NoUpperCase(args.mimeType)) =>
              outcome.value.type = args.mimeType

\* "AAAA" was made a file of type image/jpeg named p.jpg
Wit_C10_JpegFile ==
    /\ call = "base64toFile"
    /\ base64 = <<"A", "A", "A", "A">>
    /\ args.filename = <<"p", ".", "j", "p", "g">>
    /\ args.mimeType = <<"i", "m", "a", "g", "e", "/", "j", "p", "e", "g">>
    /\ outcome.kind = "return"
    /\ outcome.value.bytes = <<0, 0, 0>>
    /\ outcome.value.type = <<"i", "m", "a", "g", "e", "/", "j", "p", "e", "g">>

\* C13 as stated: a decode failure inside decodeAudioData or
\* createWavBlobFromBase64 reaches the caller as an InvalidAudioDataError,
\* not as the platform's decode failure.
Cex_C13_WrappedError ==
    (call \in {"decodeAudioData", "createWavBlobFromBase64"} /\ ~DecodeOk) =>
        /\ outcome.kind \in {"throw", "rejected"}
        /\ outcome.error = "InvalidAudioDataError"

\* C13 as amended: a decode failure inside decodeAudioData or
\* createWavBlobFromBase64 reaches the caller as the platform's decode
\* failure itself, the InvalidCharacterError of atob that the bare decoder
\* reports too; it is not wrapped in another error.
Thm_C13_PlatformErrorPropagates ==
    (call \in {"decodeAudioData", "createWavBlobFromBase64"} /\ ~DecodeOk) =>
        /\ call = "decodeAudioData" => outcome.kind = "rejected"
        /\ call = "createWavBlobFromBase64" => outcome.kind = "throw"
        /\ outcome.error = atob(base64).error
        /\ outcome.error = "InvalidCharacterError"
        /\ outcome.error = decodeBase64(base64).error

\* the encoder was called on a string with one digit too many
Wit_C13_WavOnBadLength ==
    /\ call = "createWavBlobFromBase64"
    /\ base64 = <<"/", "3", "8", "A", "A">>
    /\ outcome.kind = "throw"
    /\ outcome.error = "InvalidCharacterError"

\* C14: decodeBase64 returns as many bytes as the decoded binary string has
\* characters, byte i being the code of character i; none is dropped,
\* duplicated or moved.
Thm_C14_BytesOneToOne ==
    (call = "decodeBase64" /\ DecodeOk) =>
        /\ outcome.kind = "return"
        /\ Len(outcome.value) = Len(Decoded)
        /\ \A i \in 1..Len(Decoded) : outcome.value[i] = Decoded[i]

\* the six-byte string FF 7F 00 FF FF FF was decoded
Wit_C14_SixBytes ==
    /\ call = "decodeBase64"
    /\ base64 = <<"/", "3", "8", "A", "/", "/", "/", "/">>
    /\ outcome.kind = "return"
    /\ outcome.value = <<255, 127, 0, 255, 255, 255>>

\* C15: the buffer decodeAudioData returns has one channel and the sample
\* rate of the context it was given, whatever that is; the sample rate the
\* encoder writes is 24000, with no context involved.
Thm_C15_RateFromContext ==
    /\ (call = "decodeAudioData" /\ outcome.kind = "fulfilled") =>
          /\ outcome.value.numberOfChannels = 1
          /\ outcome.value.sampleRate = args.ctx.sampleRate
    /\ (call = "createWavBlobFromBase64" /\ outcome.kind = "return") =>
          LE32(outcome.value.bytes, 24) = 24000

\* a buffer was decoded for a context running at 48000 Hz
Wit_C15_Rate48000 ==
    /\ call = "decodeAudioData"
    /\ args.ctx.sampleRate = 48000
    /\ outcome.kind = "fulfilled"
    /\ outcome.value.sampleRate = 48000
    /\ outcome.value.length = 2

\* C16: on every string, base64toFile and decodeBase64 both fail or both
\* produce the same bytes.
Thm_C16_SameDecodeStep ==
    /\ call = "base64toFile" =>
          /\ outcome.kind = "throw" <=> decodeBase64(base64).kind = "throw"
          /\ outcome.kind = "throw" => outcome.error = decodeBase64(base64).error
          /\ outcome.kind = "return" => outcome.value.bytes = decodeBase64(base64).value
    /\ call = "decodeBase64" =>
          \A f \in Filenames, m \in MimeTypes :
            /\ outcome.kind = base64toFile(base64, f, m).kind
            /\ outcome.kind = "return" => outcome.value = base64toFile(base64, f, m).value.bytes

\* a file holding a byte above 127 was made
Wit_C16_HighByteFile ==
    /\ call = "base64toFile"
    /\ outcome.kind = "return"
    /\ outcome.value.bytes = <<255, 127, 0>>

\* the outcome of call p run alone
Alone(p) ==
    CASE procs[p].fn = "decodeAudioData" ->
            decodeAudioData(procs[p].b64, CallCtx)
      [] procs[p].fn = "createWavBlobFromBase64" ->
            createWavBlobFromBase64(procs[p].b64)
      [] procs[p].fn = "base64toFile" ->
            base64toFile(procs[p].b64, CallFilename, CallMimeType)

\* C12: however the statements of calls running side by side interleave,
\* each call ends with the outcome it has when run alone.
Thm_C12_CallsIndependent ==
    \A p \in DOMAIN procs :
        procs[p].pc \in Ended => procs[p].result = Alone(p)

\* an encoder call and a decoder call on different payloads, started before
\* either ended, have both ended with a result
Wit_C12_BothEnded ==
    /\ procs # << >>
    /\ procs[1].fn = "createWavBlobFromBase64"
    /\ procs[1].b64 = <<"/", "3", "8", "A">>
    /\ procs[1].pc = "done"
    /\ procs[1].result.kind = "return"
    /\ procs[2].fn = "decodeAudioData"
    /\ procs[2].b64 = <<"A", "A", "E", "A", "A", "g", "=", "=">>
    /\ procs[2].pc = "settled"
    /\ procs[2].result.kind = "fulfilled"
    /\ heap[1] # heap[2]

\* C17: decodeAudioData decodes, allocates and fills in one uninterrupted
\* step: between tasks no call of it is part-way, and a buffer that exists
\* is the complete buffer of a settled promise; the result reaches the
\* awaiting caller in a later step.
Thm_C17_NoSuspension ==
    \A p \in DOMAIN procs :
        procs[p].fn = "decodeAudioData" =>
            /\ procs[p].pc \in {"start", "settled", "delivered"}
            /\ procs[p].pc = "start" => heap[bufferOf(p)] = << >>
            /\ heap[bufferOf(p)] # << >> =>
                  /\ procs[p].result.kind = "fulfilled"
                  /\ heap[bufferOf(p)] = procs[p].result.value.channelData
                  /\ procs[p].result = decodeAudioData(procs[p].b64, CallCtx)

\* a promise of decodeAudioData is fulfilled with two frames and not yet
\* delivered, while another call is still to run
Wit_C17_SettledNotDelivered ==
    /\ procs # << >>
    /\ procs[1].fn = "decodeAudioData"
    /\ procs[1].pc = "settled"
    /\ procs[1].result.kind = "fulfilled"
    /\ Len(heap[1]) = 2
    /\ procs[2].pc = "start"

\* identifyLandmark answers that the image shows no landmark
NonLandmarkAnswers == { a \in IdentifyAnswers : a.kind = "fulfilled" /\ ~a.value.isLandmark }

\* C19: when identifyLandmark reports isLandmark = false, startAnalysis ends
\* in Done with an analysis that has isLandmark false and audioData null,
\* awaits no further service, and leaves the history and its saved copy
\* alone; every entry of the history of App.tsx is a landmark.
Thm_C19_NonLandmarkEndsAnalysis ==
    [][ /\ \A t \in 1..MaxTasks : \A answer \in NonLandmarkAnswers :
              identifyLandmarkSettles(t, answer) =>
                  /\ appState'.processState = "Done"
                  /\ appState'.analysis.isLandmark = FALSE
                  /\ appState'.analysis.audioData = Null
                  /\ appState'.analysis.name = "Not a Landmark"
                  /\ tasks'[t] = NoTask
                  /\ history' = history
                  /\ effects' = effects
                  /\ localStorage' = localStorage
        /\ variant = "A" => \A i \in 1..Len(history') : history'[i].isLandmark = TRUE
      ]_vars

\* a non-landmark analysis is shown, nothing is awaited, and the history
\* still holds an earlier landmark
Wit_C19_NonLandmarkShown ==
    /\ variant = "A"
    /\ appState.processState = "Done"
    /\ appState.analysis # NoAnalysis
    /\ appState.analysis.isLandmark = FALSE
    /\ appState.analysis.audioData = Null
    /\ \A t \in 1..MaxTasks : tasks[t] = NoTask
    /\ Len(history) = 1
    /\ Quiescent

\* C20: in every quiescent state of App.tsx the history stored under
\* 'landmarkHistory' equals the history in memory.
Cex_C20_StoredEqualsMemory ==
    (variant = "A" /\ mounted /\ Quiescent) =>
        /\ localStorage.present
        /\ JSONparse(localStorage.text) = history

\* C20 as amended: in every quiescent state of App.tsx the stored history
\* equals the history in memory whenever that history fits the storage
\* area; the load effect sets the history to the stored one and schedules
\* its save after the save of the empty initial history; a save that fits
\* stores the history of its render, and one that does not fit leaves the
\* stored value as it was; closing the page drops the effects still to run
\* and leaves the stored value as it is.
Thm_C20_StoredUnlessQuota ==
    [][ variant = "A" =>
          /\ (mounted' /\ effects' = << >> /\ Len(history') <= StorageQuota) =>
                 /\ localStorage'.present
                 /\ JSONparse(localStorage'.text) = history'
          /\ (mounted' /\ effects # << >> /\ Head(effects).kind = "load"
                /\ localStorage.present) =>
                 /\ history' = JSONparse(localStorage.text)
                 /\ effects'[Len(effects')] = SaveEffect(history')
                 /\ localStorage' = localStorage
          /\ (mounted' /\ effects # << >> /\ Head(effects).kind = "save") =>
                 IF Len(Head(effects).history) <= StorageQuota
                 THEN /\ localStorage'.present
                      /\ JSONparse(localStorage'.text) = Head(effects).history
                 ELSE localStorage' = localStorage
          /\ (mounted /\ ~mounted') =>
                 /\ effects' = << >>
                 /\ localStorage' = localStorage
      ]_vars

\* on mount the history of an earlier session is back in memory, the save
\* of the empty initial history has run and the save of the restored
\* history is still to run
Wit_C20_RestoredOnMount ==
    /\ variant = "A"
    /\ mounted
    /\ appState = initialState
    /\ Len(history) = 1
    /\ localStorage = [present |-> TRUE, text |-> << >>]
    /\ effects = <<SaveEffect(history)>>

\* no two entries of the list have the same name
UniqueNames(h) == \A i, j \in 1..Len(h) : i # j => h[i].name # h[j].name

RECURSIVE Without(_, _)
\* the list without its entries of the given name, the others in order
Without(h, name) ==
    IF h = << >> THEN << >>
    ELSE IF Head(h).name = name THEN Without(Tail(h), name)
    ELSE <<Head(h)>> \o Without(Tail(h), name)

\* narrateText answers with audio
AudioAnswers == { a \in AllNarrateAnswers : a.kind = "fulfilled" }

\* C18: in both components no two history entries ever have the same name,
\* and right after an analysis succeeds the analysis shown is the first
\* entry and the other entries are the earlier ones of other names, in
\* their earlier order; with three landmark names two other entries
\* follow the first.
Thm_C18_HistoryKeyedByName ==
    [][ /\ UniqueNames(history')
        /\ \A t \in 1..MaxTasks : \A answer \in AudioAnswers :
              (narrateTextSettles(t, answer) \/ narrateTextSettlesB(t, answer)) =>
                  /\ appState'.processState = "Done"
                  /\ Head(history') = appState'.analysis
                  /\ Tail(history') = Without(history, appState'.analysis.name)
      ]_vars

\* the landmark analysed first (its entry of that time is still the stored
\* one, the longer lists did not fit the quota) was the last of three
\* entries and has been analysed again with another voice: its new analysis
\* is shown and is the first entry, Big Ben and the third landmark follow
Wit_C18_AnalysedAgain ==
    /\ variant = "A"
    /\ Len(history) = 3
    /\ appState.processState = "Done"
    /\ appState.analysis = history[1]
    /\ history[2].name = "Big Ben"
    /\ localStorage.present
    /\ Len(JSONparse(localStorage.text)) = 1
    /\ JSONparse(localStorage.text)[1].name = history[1].name
    /\ JSONparse(localStorage.text)[1].audioData # history[1].audioData

\* a handleVoiceChange is awaiting narrateText
Regenerating == \E t \in 1..MaxTasks : tasks[t] # NoTask /\ tasks[t].kind = "handleVoiceChange"

\* narrateText answers that are failures
FailureAnswers == { a \in AllNarrateAnswers : a.kind = "rejected" }

\* C21: when narrateText fails during handleVoiceChange the analysis shown,
\* the history and its stored copy stay as they are, an error text is set
\* and isRegeneratingAudio is false; isRegeneratingAudio is true exactly
\* while a handleVoiceChange awaits narrateText.
Thm_C21_FailedRegeneration ==
    [][ /\ \A t \in 1..MaxTasks : \A answer \in FailureAnswers :
              handleVoiceChangeSettles(t, answer) =>
                  /\ appState'.analysis = appState.analysis
                  /\ appState'.processState = appState.processState
                  /\ appState'.error # NoError
                  /\ history' = history
                  /\ localStorage' = localStorage
                  /\ isRegeneratingAudio /\ ~isRegeneratingAudio'
        /\ variant' = "B" => (isRegeneratingAudio' <=> Regenerating')
      ]_vars

\* a regeneration has failed: the error text is set, the analysis shown still
\* has its audio and nothing is being regenerated
Wit_C21_RegenerationFailed ==
    /\ variant = "B"
    /\ appState.processState = "Done"
    /\ appState.analysis # NoAnalysis
    /\ appState.analysis.audioData = AudioOf("Kore")
    /\ selectedVoice = "Puck"
    /\ appState.error = <<"Failed to generate new narration: ", "Failed to generate audio from text.">>
    /\ ~isRegeneratingAudio
    /\ Len(history) = 1

\* the analysis has audio: neither null, nor undefined, nor empty
HasAudio(analysis) == analysis.audioData \notin {Null, Undefined, ""}

\* C30: every history entry has audio, and so has every landmark analysis
\* shown in Done.
Thm_C30_AudioPresent ==
    /\ \A i \in 1..Len(history) : HasAudio(history[i])
    /\ (appState.processState = "Done" /\ appState.analysis # NoAnalysis) =>
          \/ "isLandmark" \in DOMAIN appState.analysis /\ appState.analysis.isLandmark = FALSE
          \/ HasAudio(appState.analysis)

\* an analysis has just succeeded for the Puck voice: it is shown and is the
\* first entry, with the audio narrateText returned
Wit_C30_NarratedAnalysis ==
    /\ appState.processState = "Done"
    /\ Len(history) = 1
    /\ appState.analysis = history[1]
    /\ history[1].audioData = AudioOf("Puck")
    /\ "isLandmark" \in DOMAIN history[1]

\* C22: a successful handleVoiceChange changes only audio: the analysis shown
\* keeps everything but gets the new audioData, processState stays, and the
\* history keeps its length and order with the entry of that name replaced
\* by the analysis now shown.
Cex_C22_OnlyAudioChanges ==
    [][ \A t \in 1..MaxTasks : \A answer \in AudioAnswers :
            handleVoiceChangeSettles(t, answer) =>
                /\ appState.analysis # NoAnalysis
                /\ appState'.analysis = [appState.analysis EXCEPT !.audioData = answer.value]
                /\ appState'.processState = appState.processState
                /\ Len(history') = Len(history)
                /\ \A i \in 1..Len(history) :
                      history'[i] = IF history[i].name = appState'.analysis.name
                                    THEN appState'.analysis
                                    ELSE history[i]
      ]_vars

\* an analysis started by startAnalysis or handleAnalyzeClick is awaiting a
\* service
AnalysisInFlight(t) ==
    /\ tasks[t] # NoTask
    /\ tasks[t].kind \in {"startAnalysis", "handleAnalyzeClick"}

\* C25: while a history item the user selected is shown (Done, no image
\* file), a step of an analysis still in flight leaves the analysis shown and
\* processState Done as they are.
Cex_C25_SelectionSurvives ==
    [][ ( /\ appState.processState = "Done"
          /\ appState.imageFile = Null
          /\ mounted'
          /\ \E t \in 1..MaxTasks : AnalysisInFlight(t) /\ tasks'[t] # tasks[t] ) =>
            /\ appState'.processState = "Done"
            /\ appState'.analysis = appState.analysis
      ]_vars

\* C26: in the App of geminiService.ts the analysis is null whenever
\* processState is Idle, and an analysis shown comes with the image it was
\* made from.
Cex_C26_NoStaleRegeneration ==
    variant = "B" =>
        /\ appState.processState = "Idle" => appState.analysis = NoAnalysis
        /\ appState.analysis # NoAnalysis =>
              /\ appState.imageDataUrl # NoUrl
              /\ appState.imageDataUrl[Len(appState.imageDataUrl)]
                    = appState.analysis.imageBase64

\* the position of an analysis in its chain of awaits
PcRank(pc) ==
    CASE pc = "fileToBase64" -> 0
      [] pc = "identifyLandmark" -> 1
      [] pc = "fetchLandmarkHistory" -> 2
      [] pc = "narrateText" -> 3

\* the service the analysis of task t awaits answers
AnalysisSettles(t) ==
    \/ \E answer \in IdentifyAnswers : identifyLandmarkSettles(t, answer)
    \/ \E answer \in HistoryAnswers : fetchLandmarkHistorySettles(t, answer)
    \/ \E answer \in AllNarrateAnswers : narrateTextSettles(t, answer)
    \/ \E answer \in UNION { FileAnswers(f) : f \in Photos } : fileToBase64Settles(t, answer)
    \/ \E answer \in IdentifyAnswersB : identifyLandmarkSettlesB(t, answer)
    \/ \E answer \in HistoryAnswers : fetchLandmarkHistorySettlesB(t, answer)
    \/ \E answer \in AllNarrateAnswers : narrateTextSettlesB(t, answer)

\* the service answers the analysis of task t with a rejection
AnalysisRejected(t) ==
    \/ \E answer \in IdentifyAnswers : answer.kind = "rejected" /\ identifyLandmarkSettles(t, answer)
    \/ \E answer \in HistoryAnswers : answer.kind = "rejected" /\ fetchLandmarkHistorySettles(t, answer)
    \/ \E answer \in AllNarrateAnswers : answer.kind = "rejected" /\ narrateTextSettles(t, answer)
    \/ \E answer \in UNION { FileAnswers(f) : f \in Photos } :
          answer.kind = "rejected" /\ fileToBase64Settles(t, answer)
    \/ \E answer \in IdentifyAnswersB : answer.kind = "rejected" /\ identifyLandmarkSettlesB(t, answer)
    \/ \E answer \in HistoryAnswers : answer.kind = "rejected" /\ fetchLandmarkHistorySettlesB(t, answer)
    \/ \E answer \in AllNarrateAnswers : answer.kind = "rejected" /\ narrateTextSettlesB(t, answer)

\* narrateText answers the analysis of task t with audio
NarrationFulfilled(t) ==
    \E answer \in AudioAnswers :
        narrateTextSettles(t, answer) \/ narrateTextSettlesB(t, answer)

\* every effect runs and every service call settles
SpecAppFair ==
    /\ InitApp /\ [][NextApp]_vars
    /\ WF_vars(RunEffect)
    /\ \A t \in 1..MaxTasks : SF_vars(AnalysisSettles(t))

\* C23: when every service call settles, Loading is always left; the last
\* fulfilled call gives Done, a rejected call gives Error with an error
\* message and the history as it was and ends the analysis, and an analysis
\* that goes on has moved to a later call.
Thm_C23_LoadingEnds ==
    /\ (appState.processState = "Loading") ~> (appState.processState # "Loading")
    /\ [][ \A t \in 1..MaxTasks :
              /\ NarrationFulfilled(t) =>
                    appState'.processState = "Done" /\ tasks'[t] = NoTask
              /\ AnalysisRejected(t) =>
                    /\ appState'.processState = "Error"
                    /\ appState'.error # NoError
                    /\ history' = history
                    /\ tasks'[t] = NoTask
              /\ (AnalysisSettles(t) /\ tasks'[t] # NoTask) =>
                    PcRank(tasks'[t].pc) > PcRank(tasks[t].pc)
         ]_vars

Wit_C23_FailedAfterHistory ==
    /\ appState.processState = "Error"
    /\ appState.error = <<"Network error">>
    /\ appState.analysis = NoAnalysis
    /\ Len(history) = 1
    /\ \A t \in 1..MaxTasks : tasks[t] = NoTask

\* the source nodes that are audible
Audible == { i \in 1..Len(sources) : sources[i] = "playing" }

\* C24: at most one narration source is playing at any time and
\* audioSourceRef refers to it.
Cex_C24_OneSourceHeld ==
    /\ Cardinality(Audible) <= 1
    /\ \A i \in Audible : audioSourceRef = i

\* C27: every camera stream that is live belongs to a CameraCapture that
\* is still mounted: after a close, a capture or an unmount no track is live.
Cex_C27_NoLiveTrackLeft ==
    \A i \in 1..Len(streams) :
        streams[i].state = "live" => cameras[streams[i].owner].mounted

\* the operation has been observed at least once
Observed ==
    /\ videoPc \in {"setTimeout", "getVideosOperation", "done"}
    /\ operation # [done |-> FALSE]

\* the operations that are not done, as generateVideos or getVideosOperation
\* answers
NotDoneAnswers == { a \in OperationAnswers : a.kind = "fulfilled" /\ ~a.value.done }

\* C28: no progress message shows more than 99 percent; a link is returned
\* only for an observed operation with done = true and is its video URI; a
\* done operation without URI makes the function throw; after every
\* observation that is not done, whatever the number of polls before it, the
\* function counts one more poll and waits for the timer, and once the timer
\* has fired it has called getVideosOperation again.
Thm_C28_PollUntilDone ==
    /\ [](progressMessage.n <= 99)
    /\ [](videoResult.kind = "return" =>
            /\ Observed /\ operation.done
            /\ videoResult.value = operation.uri
            /\ operation.uri \notin {Undefined, ""})
    /\ []((Observed /\ operation.done /\ operation.uri \in {Undefined, ""}) =>
            /\ videoPc = "done"
            /\ videoResult.kind = "throw"
            /\ videoResult.error =
                  "Video generation completed, but no download link was provided.")
    /\ []((Observed /\ ~operation.done) =>
            \/ videoPc \in {"setTimeout", "getVideosOperation"} /\ videoResult.kind = "none"
            \/ videoResult = [kind |-> "throw", error |-> "Network error"])
    /\ [][ \A answer \in NotDoneAnswers :
              (generateVideosSettles(answer) \/ getVideosOperationSettles(answer)) =>
                  /\ videoPc' = "setTimeout"
                  /\ pollCount' = pollCount + 1
                  /\ videoResult'.kind = "none"
         ]_vars
    /\ \A k \in 1..MaxPolls :
          (videoPc = "setTimeout" /\ pollCount = k)
             ~> (videoPc = "getVideosOperation" /\ pollCount = k)

\* the twentieth poll, after nineteen observations that were not done, finds
\* the operation done without metadata and without URI: the fallback
\* percentage 20 * 5 is shown as 99 and the function throws
Wit_C28_CappedThenNoLink ==
    /\ videoPc = "done"
    /\ pollCount = 20
    /\ operation.done /\ operation.uri = Undefined
    /\ ~operation.metadata.present
    /\ videoResult.kind = "throw"
    /\ progressMessage.n = 99
    /\ progressMessage.text = "Rendering video... ${n}% complete. This may take a few minutes."

\* the payload has been built
PayloadBuilt == videoPc \in {"generateVideos", "setTimeout", "getVideosOperation", "done"}

\* C29: the list sent to video generation is the initial image followed by
\* the generated scenes that are not null, in prompt order, so it has 1 to
\* 3 elements; while the scenes are generated the function does not fail.
Thm_C29_ReferenceImages ==
    /\ PayloadBuilt =>
          /\ Len(referenceImages) \in 1..3
          /\ referenceImages[1] = videoArgs.initialImage
          /\ referenceImages =
                CASE generatedImages[1] # Null /\ generatedImages[2] # Null ->
                       <<videoArgs.initialImage, SceneOf(1), SceneOf(2)>>
                  [] generatedImages[1] # Null /\ generatedImages[2] = Null ->
                       <<videoArgs.initialImage, SceneOf(1)>>
                  [] generatedImages[1] = Null /\ generatedImages[2] # Null ->
                       <<videoArgs.initialImage, SceneOf(2)>>
                  [] OTHER -> <<videoArgs.initialImage>>
    /\ videoPc = "generateReferenceImage" => videoResult.kind = "none"
    /\ videoPc = "generateVideos" => videoResult.kind = "none"

Wit_C29_OnlyNightScene ==
    /\ videoPc = "done"
    /\ videoResult.kind = "return"
    /\ generatedImages = <<Null, SceneOf(2)>>
    /\ referenceImages = <<"photo1", "at night">>

====
